---------------------------- MODULE Spec2Model ----------------------------
(***************************************************************************)
(* Dungeon Forge: the mock generation backend (lib/tauriMock.ts), the      *)
(* generation store (stores/generationStore.ts) and the project store      *)
(* (stores/projectStore.ts).                                               *)
(*                                                                         *)
(* Integers of the model are TLC's 32-bit integers, so the products of the *)
(* seeded generator are computed on 16-bit limbs, and the rounding of the  *)
(* JavaScript double (53 significant bits) is modelled bit for bit.        *)
(***************************************************************************)
EXTENDS Integers, Sequences, FiniteSets, TLC

(***************************************************************************)
(* Bounds of the model.                                                    *)
(***************************************************************************)
\* seeds a request or a simulation may start from: 0..MaxSeed
MaxSeed == 1
\* runCount of a simulation: 1..MaxRuns
MaxRuns == 2
\* the random part of the mock's delay, in steps of the model: 0..MaxJitter
MaxJitter == 0
\* values Date.now() may return: 0..MaxTime
MaxTime == 1

\* null where the value is a string, null or undefined where it is an object,
\* an absent optional number (a present one is <<n>>), and what reading past
\* the end of an array of strings returns
NULL == "null"
NullObject == [null |-> TRUE]
Absent == <<>>
Undefined == "undefined"

(***************************************************************************)
(* SeededRandom (tauriMock.ts).  The state `seed` is a JavaScript number;  *)
(* after the first call of next() it is an integer in 0..2^31-1.           *)
(***************************************************************************)
Multiplier == 1103515245
Increment == 12345
Mask31 == 2147483647
Limb == 65536

\* floor(log2(x)) for 1 <= x < 2^16
Log2(x) == CHOOSE i \in 0..15 : 2^i <= x /\ (i = 15 \/ x < 2^(i+1))

\* carries pushed upwards: every limb but the last brought back under Limb
Normalize(l) ==
  LET c1 == l[1] \div Limb
      m2 == l[2] + c1
      c2 == m2 \div Limb
      m3 == l[3] + c2
      c3 == m3 \div Limb
  IN  <<l[1] % Limb, m2 % Limb, m3 % Limb, l[4] + c3>>

\* seed * 1103515245 as an exact integer, in limbs (least significant first)
MulLimbs(seed) ==
  LET s0 == seed % Limb
      s1 == seed \div Limb
      a0 == Multiplier % Limb
      a1 == Multiplier \div Limb
      lo == s0 * a0
  IN  Normalize(<<lo % Limb, s1 * a0 + s0 * a1 + (lo \div Limb), s1 * a1, 0>>)

\* position of the most significant bit of a positive limb number
TopBit(l) ==
  IF l[4] > 0 THEN 48 + Log2(l[4])
  ELSE IF l[3] > 0 THEN 32 + Log2(l[3])
  ELSE IF l[2] > 0 THEN 16 + Log2(l[2])
  ELSE IF l[1] > 0 THEN Log2(l[1])
  ELSE 0

\* the limb number l, whose lowest limb leaves r modulo the unit u of its last
\* significant bit, rounded to a multiple of u: to the nearest, ties to even
RoundOff(l, u, r) ==
  Normalize(<<l[1] - r
                + (IF r > u \div 2 \/ (r = u \div 2 /\ (l[1] \div u) % 2 = 1)
                   THEN u ELSE 0),
              l[2], l[3], l[4]>>)

\* the nearest number with 53 significant bits of a limb number whose most
\* significant bit is bit k
RoundAt(l, k) ==
  IF k <= 52 THEN l ELSE RoundOff(l, 2^(k - 52), l[1] % (2^(k - 52)))

\* the nearest double of an exact integer: 53 significant bits, ties to even
Round53(l) == RoundAt(l, TopBit(l))

AddLimbs(l, c) == Normalize(<<l[1] + c, l[2], l[3], l[4]>>)

\* ToInt32 followed by & 0x7fffffff: the low 31 bits
And31(l) == (l[2] % 32768) * Limb + l[1]

AllOnes(seed) == Mask31

\* this.seed = (this.seed * 1103515245 + 12345) & 0x7fffffff: the product is
\* rounded to a double, and so is the sum
NextSeed(seed) ==
  And31(Round53(AddLimbs(Round53(MulLimbs(seed)), Increment)))

\* TLC hands an operator its arguments unevaluated and evaluates each where it
\* is first used, nested inside whatever uses it.  The source computes its
\* values in program order; Eager(v, e) is e with v evaluated first, which
\* keeps the evaluation of a long chain of draws flat.  Eager(v, e) = e.
Eager(v, e) == CASE v = v -> e

\* Math.floor((seed / 0x7fffffff) * n) for 0 <= seed <= 0x7fffffff and n >= 0.
\* 0x7fffffff is prime, so for 0 < seed < 0x7fffffff the exact quotient
\* seed*n/0x7fffffff is at least 1/0x7fffffff away from every integer, far more
\* than the rounding error of the two double operations: the floor of the
\* double product is the floor of the exact quotient.  It is counted as the
\* number of k in 1..n with k*0x7fffffff <= seed*n, that is
\* seed >= ceil(k*0x7fffffff/n), which stays within 32 bits.
FloorScaled(seed, n) ==
  Cardinality({k \in 1..n :
     seed >= k * (Mask31 \div n) + ((k * (Mask31 % n) + n - 1) \div n)})

\* nextInt(min, max), given the state next() has just stored
nextInt(seed, min, max) == FloorScaled(seed, max - min + 1) + min

\* pick(array), given the state next() has just stored; an index equal to
\* array.length reads undefined
pick(seed, array) ==
  LET idx == FloorScaled(seed, Len(array))
  IN  IF idx < Len(array) THEN array[idx + 1] ELSE Undefined

(***************************************************************************)
(* generateDungeon (tauriMock.ts).  `rng` is the state of the SeededRandom *)
(* instance the call creates; every draw advances it with NextSeed.        *)
(***************************************************************************)
roomTypes == <<"entrance", "hallway", "chamber", "treasure", "boss">>
themes == <<"stone", "moss", "crystal", "lava">>
entityTypes == <<"enemy", "chest", "trap", "decoration">>
spawnTypes == <<"enemy", "item", "npc">>
\* what a call that throws yields in place of its value
Thrown == [thrown |-> "TypeError"]

RECURSIVE DrawsFrom(_, _)
DrawsFrom(first, n) ==
  <<first>> \o (IF n <= 1 THEN <<>> ELSE DrawsFrom(NextSeed(first), n - 1))

\* the states of the generator after each of its next n calls of next(), in
\* the order of the calls
Draws(rng, n) == DrawsFrom(NextSeed(rng), n)

RECURSIVE GenEntities(_, _, _, _, _, _)
\* the body of the entity loop, given the three calls of next() it makes
EntityDrawn(e, entityCount, i, bounds, entities, draws) ==
  Eager(draws,
    GenEntities(e + 1, entityCount, i, bounds, draws[3],
      Append(entities,
        [id |-> <<"entity", i, e>>,
         type |-> pick(draws[1], entityTypes),
         position |->
           [x |-> bounds.x + nextInt(draws[2], 1, bounds.width - 2),
            y |-> bounds.y + nextInt(draws[3], 1, bounds.height - 2)]])))

\* for (let e = 0; e < entityCount; e++) room.entities.push({...}), for the
\* room of index i
GenEntities(e, entityCount, i, bounds, rng, entities) ==
  IF e >= entityCount THEN [rng |-> rng, entities |-> entities]
  ELSE EntityDrawn(e, entityCount, i, bounds, entities, Draws(rng, 3))

RECURSIVE GenRooms(_, _, _, _, _, _)
\* the end of the body of the room loop: rooms.push(room), lastX and lastY
RoomFilled(i, roomCount, rooms, bounds, roomType, theme, ents) ==
  Eager(<<bounds, ents>>,
    GenRooms(i + 1, roomCount, ents.rng,
      bounds.x + bounds.width, bounds.y + (bounds.height \div 2),
      Append(rooms,
        [id |-> <<"room", i>>,
         type |-> roomType,
         bounds |-> bounds,
         entities |-> ents.entities,
         metadata |-> [difficulty |-> <<i, roomCount>>, theme |-> theme]])))

\* the body of the room loop, given the calls of next() it makes before its
\* entity loop: width, height, offsetX and offsetY take the first four; a room
\* between the first and the last takes one for its type; the theme takes
\* one; a room that is not the entrance takes one for its number of entities
RoomDrawn(i, roomCount, lastX, lastY, rooms, draws) ==
  LET bounds == [x |-> lastX + nextInt(draws[3], -3, 8),
                 y |-> lastY + nextInt(draws[4], -3, 8),
                 width |-> nextInt(draws[1], 6, 14),
                 height |-> nextInt(draws[2], 6, 12)]
      typed == IF i # 0 /\ i # roomCount - 1 THEN 5 ELSE 4
      roomType == IF i = 0 THEN "entrance"
                  ELSE IF i = roomCount - 1 THEN "boss"
                  ELSE pick(draws[5], SubSeq(roomTypes, 2, 4))
      theme == pick(draws[typed + 1], themes)
      counted == IF roomType # "entrance" THEN typed + 2 ELSE typed + 1
      entityCount == IF roomType # "entrance"
                     THEN nextInt(draws[typed + 2], 0, 4) ELSE 0
  IN  RoomFilled(i, roomCount, rooms, bounds, roomType, theme,
        GenEntities(0, entityCount, i, bounds, draws[counted], <<>>))

\* for (let i = 0; i < roomCount; i++) {...}
GenRooms(i, roomCount, rng, lastX, lastY, rooms) ==
  IF i >= roomCount THEN [rng |-> rng, rooms |-> rooms]
  ELSE RoomDrawn(i, roomCount, lastX, lastY, rooms, Draws(rng, 7))

\* a connection that leads from a room back to itself
SelfConnection(from, to) ==
  [fromRoomId |-> from.id,
   toRoomId |-> from.id,
   fromDoor |-> [x |-> from.bounds.x + from.bounds.width,
                 y |-> from.bounds.y + (from.bounds.height \div 2)],
   toDoor |-> [x |-> from.bounds.x,
               y |-> from.bounds.y + (from.bounds.height \div 2)]]

\* the sequential connection of rooms[i] and rooms[i + 1] (1-based here)
SequentialConnection(from, to) ==
  [fromRoomId |-> from.id,
   toRoomId |-> to.id,
   fromDoor |-> [x |-> from.bounds.x + from.bounds.width,
                 y |-> from.bounds.y + (from.bounds.height \div 2)],
   toDoor |-> [x |-> to.bounds.x,
               y |-> to.bounds.y + (to.bounds.height \div 2)]]

BackToItself(from, to) ==
  [fromRoomId |-> from.id,
   toRoomId |-> from.id,
   fromDoor |-> [x |-> from.bounds.x + (from.bounds.width \div 2),
                 y |-> from.bounds.y + from.bounds.height],
   toDoor |-> [x |-> from.bounds.x + (from.bounds.width \div 2),
               y |-> from.bounds.y]]

BranchConnection(from, to) ==
  [fromRoomId |-> from.id,
   toRoomId |-> to.id,
   fromDoor |-> [x |-> from.bounds.x + (from.bounds.width \div 2),
                 y |-> from.bounds.y + from.bounds.height],
   toDoor |-> [x |-> to.bounds.x + (to.bounds.width \div 2),
               y |-> to.bounds.y]]

\* whether array[idx] of the source (0-based) reads undefined
OutOfRange(array, idx) == idx < 0 \/ idx >= Len(array)

RECURSIVE GenBranches(_, _, _, _, _)
\* the body of the branch loop, given the indices it drew
BranchPicked(i, branchCount, rng, rooms, connections, fromIdx, toIdx) ==
  IF OutOfRange(rooms, fromIdx) \/ OutOfRange(rooms, toIdx)
  THEN [rng |-> rng, connections |-> connections, threw |-> TRUE]
  ELSE GenBranches(i + 1, branchCount, rng, rooms,
         Append(connections,
           BranchConnection(rooms[fromIdx + 1], rooms[toIdx + 1])))

\* the body of the branch loop, given the two calls of next() it makes and
\* the fromIdx it drew
BranchFrom(i, branchCount, rooms, connections, draws, fromIdx) ==
  BranchPicked(i, branchCount, draws[2], rooms, connections, fromIdx,
               nextInt(draws[2], fromIdx + 2, Len(rooms) - 1))

\* the body of the branch loop, given the two calls of next() it makes
BranchDrawn(i, branchCount, rooms, connections, draws) ==
  Eager(draws,
    BranchFrom(i, branchCount, rooms, connections, draws,
               nextInt(draws[1], 0, Len(rooms) - 3)))

\* for (let i = 0; i < branchCount; i++) {...}; reading .id of an undefined
\* room throws
GenBranches(i, branchCount, rng, rooms, connections) ==
  IF i >= branchCount THEN [rng |-> rng, connections |-> connections, threw |-> FALSE]
  ELSE BranchDrawn(i, branchCount, rooms, connections, Draws(rng, 2))

RECURSIVE GenSpawns(_, _, _, _, _)
\* the body of the spawn loop, given the four calls of next() it makes, the
\* rooms.slice(1) it picks from and the index it drew
SpawnPicked(i, spawnCount, rooms, spawnPoints, draws, candidates, idx) ==
  IF OutOfRange(candidates, idx)
  THEN [rng |-> draws[2], spawnPoints |-> spawnPoints, threw |-> TRUE]
  ELSE GenSpawns(i + 1, spawnCount, draws[4], rooms,
         Append(spawnPoints,
           [id |-> <<"spawn", i>>,
            type |-> pick(draws[2], spawnTypes),
            position |->
              [x |-> candidates[idx + 1].bounds.x
                       + nextInt(draws[3], 1, candidates[idx + 1].bounds.width - 2),
               y |-> candidates[idx + 1].bounds.y
                       + nextInt(draws[4], 1, candidates[idx + 1].bounds.height - 2)],
            roomId |-> candidates[idx + 1].id]))

\* the body of the spawn loop, given the four calls of next() it makes
SpawnDrawn(i, spawnCount, rooms, spawnPoints, draws) ==
  Eager(draws,
    SpawnPicked(i, spawnCount, rooms, spawnPoints, draws,
                SubSeq(rooms, 2, Len(rooms)),
                FloorScaled(draws[1], Len(rooms) - 1)))

\* for (let i = 0; i < spawnCount; i++) {...}; reading .bounds of an undefined
\* room throws
GenSpawns(i, spawnCount, rng, rooms, spawnPoints) ==
  IF i >= spawnCount THEN [rng |-> rng, spawnPoints |-> spawnPoints, threw |-> FALSE]
  ELSE SpawnDrawn(i, spawnCount, rooms, spawnPoints, Draws(rng, 4))

\* the centre of a room, as playerStart and the exit compute it
BeyondCorner(room) ==
  [x |-> room.bounds.x + room.bounds.width + 1,
   y |-> room.bounds.y + room.bounds.height + 1]

Centre(room) ==
  [x |-> room.bounds.x + (room.bounds.width \div 2),
   y |-> room.bounds.y + (room.bounds.height \div 2)]

\* new SeededRandom(seed)
NewSeededRandom(seed) == seed

\* the rest of generateDungeon once the rooms are there: the connections,
\* the spawn points, the player's start and the exit
Furnished(roomCount, rooms, gb, gs) ==
  IF gb.threw \/ gs.threw THEN Thrown
  ELSE [rooms |-> rooms,
        connections |-> gb.connections,
        spawnPoints |-> gs.spawnPoints,
        playerStart |-> Centre(rooms[1]),
        exits |-> <<Centre(rooms[Len(rooms)])>>]

\* the branch loop, with branchCount drawn by the call of next() before it
Branched(roomCount, rooms, rng) ==
  GenBranches(0, nextInt(rng, 0, roomCount \div 3), rng, rooms,
              [i \in 1..(Len(rooms) - 1) |->
                 SequentialConnection(rooms[i], rooms[i + 1])])

\* the spawn loop, with spawnCount drawn by the call of next() before it
Spawned(rooms, rng) == GenSpawns(0, nextInt(rng, 3, 8), rng, rooms, <<>>)

Connected(roomCount, rooms, gb) ==
  Furnished(roomCount, rooms, gb, Spawned(rooms, NextSeed(gb.rng)))

Built(roomCount, gr) ==
  Connected(roomCount, gr.rooms, Branched(roomCount, gr.rooms, NextSeed(gr.rng)))

\* the room loop, with roomCount drawn by the call of next() before it
Roomed(rng) ==
  Built(nextInt(rng, 5, 12), GenRooms(0, nextInt(rng, 5, 12), rng, 0, 0, <<>>))

\* generateDungeon(seed) run on the generator state rng
DungeonFrom(rng) == Roomed(NextSeed(rng))

generateDungeon(seed) == DungeonFrom(NewSeededRandom(seed))


(***************************************************************************)
(* State.                                                                  *)
(***************************************************************************)
VARIABLES
  \* useGenerationStore (generationStore.ts)
  currentSeed, lastResult, isGenerating, error,
  simulationConfig, simulationResults, simulationProgress, isSimulating,
  \* calls of the mock backend that have not settled: the pending
  \* generate_once of each generate(), and the loop of each run_simulation
  generating, simulating,
  \* history of the run: how many calls of the backend generate() and
  \* runSimulation() have made; for each seed how many generate_once calls made by
  \* generate() have returned (counted up to 2) and the layouts they returned;
  \* the seed, graph and layout of each generate_once that generate() stored;
  \* the run_simulation that returned last: its config, what its runs
  \* produced, and whether cancelSimulation() was called while it was pending
  started, generated, layouts, sampled, executed,
  \* a dataset and the statistics calcStats computes of it
  dataset, statistics,
  \* useProjectStore (projectStore.ts)
  project, filePath, isDirty, activeGeneratorId,
  history, historyIndex, canUndo, canRedo,
  \* window.localStorage, how many ids crypto.randomUUID() has handed out and
  \* how many more actions of the project store the run calls
  localStorage, uuids, calls,
  \* history of the run: where the run stands in a newProject() followed by
  \* recorded mutations and an undo(), with the project before the last of the
  \* mutations; and where it stands in an undo() followed by a redo(), with
  \* the project before the undo(); and where it stands in undo() calls
  \* followed by a recorded mutation and a redo(), with the history and
  \* historyIndex before the mutation and the project and historyIndex before
  \* the redo()
  mutation, roundTrip, redoCut,
  \* the weights prop of BranchWeightsEditor (NodePropertiesPanel.tsx), and
  \* history of the run: the operation of the editor that produced it, the
  \* index it was called with, the weights before it, and how many operations
  \* there have been
  weights, edit,
  \* useEditorStore (editorStore.ts): the selection and whether the
  \* properties panel is open; and history of the run: the handler of the
  \* node editor that ran last, with the nodes and edges it was handed
  selectedNodeIds, selectedEdgeIds, propertiesPanelOpen, reported,
  \* a SeededRandom instance (tauriMock.ts): the seed it was constructed
  \* with, its field seed, what its last call returned and how many calls of
  \* next() it has made; and the layout generateDungeon returned for the seed
  givenSeed, randomSeed, lastDraw, nextCalls, dungeonLayout

genVars == <<currentSeed, lastResult, isGenerating, error,
             simulationConfig, simulationResults, simulationProgress,
             isSimulating, generating, simulating,
             started, generated, layouts, sampled, executed>>

statsVars == <<dataset, statistics>>

projectVars == <<project, filePath, isDirty, activeGeneratorId,
                 history, historyIndex, canUndo, canRedo,
                 localStorage, uuids, calls, mutation, roundTrip, redoCut>>

weightVars == <<weights, edit>>

editorVars == <<selectedNodeIds, selectedEdgeIds, propertiesPanelOpen,
                reported>>

dungeonVars == <<givenSeed, randomSeed, lastDraw, nextCalls, dungeonLayout>>

vars == <<genVars, statsVars, projectVars, weightVars, editorVars, dungeonVars>>

\* calls of the backend the model lets be pending at a time, and calls of
\* the backend the store makes in one behaviour
MaxInFlight == 2
MaxCalls == 3

Seeds == 0..MaxSeed
\* seeds a run of a simulation can reach
RunSeeds == 0..(MaxSeed + MaxRuns)
\* generateDungeon is a function of the seed alone: its values on the seeds of
\* the model, computed once
Dungeons == [seed \in RunSeeds |-> generateDungeon(seed)]
Times == 0..MaxTime
\* Math.round(endTime - startTime) of a generate_once: the 100 ms of the timer
\* and its random part
BaseDelay == 100
Delays == {BaseDelay + j : j \in 0..MaxJitter}

\* a ?? b on an optional number
OrElse(opt, default) == IF opt = Absent THEN default ELSE opt[1]

\* the sequence without its k-th element
RemoveAt(seq, k) == SubSeq(seq, 1, k - 1) \o SubSeq(seq, k + 1, Len(seq))

(***************************************************************************)
(* The mock backend (tauriMock.ts).  Numbers that are quotients are kept   *)
(* as exact fractions.                                                     *)
(***************************************************************************)
Ratio(num, den) == [num |-> num, den |-> den]
SameRatio(a, b) == a.num * b.den = b.num * a.den

\* the GenerationResult generate_once returns for a layout; a layout that
\* could not be built is the exception generateDungeon threw
GenerationResultOf(request, dungeon, now, elapsed) ==
  IF dungeon = Thrown THEN Thrown
  ELSE [seed |-> request.seed,
        timestamp |-> now,
        success |-> TRUE,
        data |-> dungeon,
        constraintResults |->
          <<[constraintId |-> "min-rooms",
             passed |-> Len(dungeon.rooms) >= 5,
             message |-> <<"Room count: ", Len(dungeon.rooms)>>],
            [constraintId |-> "connected",
             passed |-> TRUE,
             message |-> <<"All rooms connected">>],
            [constraintId |-> "has-exit",
             passed |-> Len(dungeon.exits) > 0,
             message |-> <<"Exit exists">>]>>,
        metadata |-> [nodeExecutions |-> Len(dungeon.rooms) * 3,
                      retryCount |-> 0],
        errors |-> <<>>,
        durationMs |-> elapsed]

\* a generate_once that seeds its generator from the clock as well
ClockSeeded(request, now, elapsed) ==
  GenerationResultOf(request,
                     Dungeons[(request.seed + now) % (MaxSeed + MaxRuns + 1)],
                     now, elapsed)

\* commands.generate_once({ request }) when its timer has fired: now is
\* Date.now(), elapsed is Math.round(endTime - startTime)
GraphSeeded(request, now, elapsed) ==
  GenerationResultOf(request,
                     Dungeons[(request.seed
                                 + (IF "generator" \notin DOMAIN request
                                    THEN 0
                                    ELSE IF request.generator = [null |-> TRUE]
                                    THEN 0
                                    ELSE Len(request.generator.graph.nodes)))
                                % (MaxSeed + MaxRuns + 1)],
                     now, elapsed)

generate_once(request, now, elapsed) ==
  GenerationResultOf(request, Dungeons[request.seed], now, elapsed)

RECURSIVE Sum(_)
\* values.reduce((a, b) => a + b, 0)
Sum(values) ==
  IF values = <<>> THEN 0 ELSE values[1] + Sum(Tail(values))

RECURSIVE Insert(_, _)
Insert(sorted, v) ==
  IF sorted = <<>> THEN <<v>>
  ELSE IF v < sorted[1] THEN <<v>> \o sorted
  ELSE <<sorted[1]>> \o Insert(Tail(sorted), v)

\* the array left in the order it came in
Unsorted(values) == values

RECURSIVE SortAscending(_)
\* [...values].sort((a, b) => a - b)
SortAscending(values) ==
  IF values = <<>> THEN <<>>
  ELSE Insert(SortAscending(SubSeq(values, 1, Len(values) - 1)),
              values[Len(values)])

\* Math.floor(sorted.length * p) for p = percent / 100; the double product
\* has the same floor as the exact one for every length below 100000
FloorOfShare(length, percent) == (length * percent) \div 100

\* calcStats(values) of run_simulation, for a non-empty array of integers;
\* stdDev is given by the variance it is the square root of
calcStats(values) ==
  LET sorted == SortAscending(values)
      n == Len(values)
      sum == Sum(values)
      squares == Sum([k \in 1..n |-> values[k] * values[k]])
  IN  [min |-> sorted[1],
       max |-> sorted[Len(sorted)],
       mean |-> Ratio(sum, n),
       median |-> sorted[(Len(sorted) \div 2) + 1],
       stdDev |-> [sqrt |-> Ratio(n * squares - sum * sum, n * n)],
       percentiles |-> [p5 |-> sorted[FloorOfShare(Len(sorted), 5) + 1],
                        p25 |-> sorted[FloorOfShare(Len(sorted), 25) + 1],
                        p75 |-> sorted[FloorOfShare(Len(sorted), 75) + 1],
                        p95 |-> sorted[FloorOfShare(Len(sorted), 95) + 1]],
       histogram |-> <<>>]

\* a loop that gives every run the first seed
FirstSeedOnly(config, i) == OrElse(config.seedStart, 0)

\* const seed = (config.seedStart ?? 0) + i
SimulationSeed(config, i) == OrElse(config.seedStart, 0) + i

\* a rate that counts the runs that failed
FailureRate(results) ==
  Ratio(Len(SelectSeq(results, LAMBDA r : ~r.success)), Len(results))

\* results.filter((r) => r.success).length / results.length
SuccessRate(results) ==
  Ratio(Len(SelectSeq(results, LAMBDA r : r.success)), Len(results))

\* room.entities.filter((e) => e.type === 'enemy').length summed over rooms
EnemyCount(dungeon) ==
  Sum([k \in 1..Len(dungeon.rooms) |->
         Len(SelectSeq(dungeon.rooms[k].entities, LAMBDA e : e.type = "enemy"))])

\* what run_simulation returns after its loop has filled `results`; elapsed
\* is Math.round(performance.now() - startTime)
SimulationResultsOf(config, results, elapsed) ==
  LET roomCounts == [k \in 1..Len(results) |-> Len(results[k].data.rooms)]
      pathLengths == [k \in 1..Len(results) |-> Len(results[k].data.connections)]
      enemyCounts == [k \in 1..Len(results) |-> EnemyCount(results[k].data)]
  IN  [config |-> config,
       runs |-> config.runCount,
       successRate |-> SuccessRate(results),
       durationMs |-> elapsed,
       statistics |-> [roomCount |-> calcStats(roomCounts),
                       pathLength |-> calcStats(pathLengths),
                       enemyCount |-> calcStats(enemyCounts),
                       itemCount |-> calcStats([k \in 1..Len(results) |-> 0])],
       constraintResults |->
         [id \in {"min-rooms", "connected"} |->
            [passRate |-> Ratio(1, 1), violations |-> 0]],
       warnings |-> <<>>]


(***************************************************************************)
(* useGenerationStore (generationStore.ts) over the mock backend.          *)
(***************************************************************************)
\* what generate() is called with: Toolbar and PreviewPanel pass the active
\* generator of the project store, other callers pass none
\* graphs of the generator the toolbar passes: a start node feeding a room,
\* and the same graph after a room that nothing connects was added
StartToRoom ==
  [nodes |-> <<[id |-> "n1", type |-> "start"], [id |-> "n2", type |-> "room"]>>,
   edges |-> <<[id |-> "e1",
                source |-> [nodeId |-> "n1", portId |-> "out"],
                target |-> [nodeId |-> "n2", portId |-> "in"]]>>]
WithLooseRoom ==
  [StartToRoom EXCEPT !.nodes = Append(@, [id |-> "n3", type |-> "room"])]
Generators ==
  {NullObject,
   [id |-> "g1", type |-> "dungeon", graph |-> StartToRoom,
    constraints |-> <<>>],
   [id |-> "g1", type |-> "dungeon", graph |-> WithLooseRoom,
    constraints |-> <<>>],
   [id |-> "g1", type |-> "dungeon", graph |-> StartToRoom,
    constraints |-> <<[id |-> "c1", type |-> "connected",
                       parameters |-> <<>>,
                       errorMessage |-> "Rooms must connect",
                       severity |-> "error"]>>]}
\* the graph a request carries, if it carries a generator
GraphOf(request) ==
  IF request.generator = NullObject THEN NullObject
  ELSE request.generator.graph
GeneratorIds == {"g1"}
SeedArguments == {Absent} \cup {<<seed>> : seed \in Seeds}
\* seedStart of a simulation: absent (0 is used) or one of 1..MaxSeed
SimulationConfigs ==
  [generatorId : GeneratorIds, runCount : 1..MaxRuns,
   seedStart : {Absent} \cup {<<seed>> : seed \in 1..MaxSeed}]

\* error instanceof Error ? error.message : String(error)
MessageOf(thrown) == thrown.thrown

\* the generation store after its construction
GenerationIdle ==
  /\ lastResult = NullObject
  /\ isGenerating = FALSE
  /\ error = NULL
  /\ simulationConfig = NullObject
  /\ simulationResults = NullObject
  /\ simulationProgress = 0
  /\ isSimulating = FALSE
  /\ generating = <<>>
  /\ simulating = <<>>
  /\ started = 0
  /\ generated = [seed \in RunSeeds |-> 0]
  /\ layouts = [seed \in RunSeeds |-> {}]
  /\ sampled = {}
  /\ executed = NullObject

\* no dataset under study
StatsIdle ==
  /\ dataset = <<>>
  /\ statistics = NullObject

NoMutation == [stage |-> "other", before |-> NullObject]
NoRoundTrip == [stage |-> "none", was |-> NullObject]
NoRedoCut == [stage |-> "none"]

\* actions of the project store called in one behaviour
MaxOps == 5

\* the project store after its construction
ProjectIdle ==
  /\ project = NullObject
  /\ filePath = NULL
  /\ isDirty = FALSE
  /\ activeGeneratorId = NULL
  /\ history = <<>>
  /\ historyIndex = -1
  /\ canUndo = FALSE
  /\ canRedo = FALSE
  /\ localStorage = <<>>
  /\ uuids = 0
  /\ calls = MaxOps
  /\ mutation = NoMutation
  /\ roundTrip = NoRoundTrip
  /\ redoCut = NoRedoCut

NoEdit == [op |-> "none", index |-> 0, before |-> <<>>, count |-> 0]

\* no branch node under edit
WeightsIdle ==
  /\ weights = <<>>
  /\ edit = NoEdit

\* no call of the SeededRandom instance has returned
NoDraw == [call |-> "none"]

\* no SeededRandom instance is under study: one constructed with 0 rests
DungeonIdle ==
  /\ givenSeed = 0
  /\ randomSeed = 0
  /\ lastDraw = NoDraw
  /\ nextCalls = 0
  /\ dungeonLayout = NullObject

\* no handler of the node editor has run
NoReport == [handler |-> "none", nodes |-> <<>>, edges |-> <<>>]

\* the editor store as create() builds it
EditorIdle ==
  /\ selectedNodeIds = <<>>
  /\ selectedEdgeIds = <<>>
  /\ propertiesPanelOpen = TRUE
  /\ reported = NoReport

InitGeneration ==
  /\ currentSeed \in Seeds
  /\ GenerationIdle
  /\ StatsIdle
  /\ ProjectIdle
  /\ WeightsIdle
  /\ EditorIdle
  /\ DungeonIdle

setSeed(seed) ==
  /\ currentSeed' = seed
  /\ UNCHANGED <<lastResult, isGenerating, error, simulationConfig,
                 simulationResults, simulationProgress, isSimulating,
                 generating, simulating, started, generated, layouts, sampled,
                 executed>>

\* Math.floor(Math.random() * 2147483647)
randomizeSeed ==
  /\ \E seed \in Seeds : currentSeed' = seed
  /\ UNCHANGED <<lastResult, isGenerating, error, simulationConfig,
                 simulationResults, simulationProgress, isSimulating,
                 generating, simulating, started, generated, layouts, sampled,
                 executed>>

\* generate(generatorId, seed, generator) up to its await: the request is
\* handed to generate_once, which starts its timer
generate(generatorId, seed, generator) ==
  LET actualSeed == OrElse(seed, currentSeed)
  IN  /\ Len(generating) + Len(simulating) < MaxInFlight
      /\ started < MaxCalls
      /\ started' = started + 1
      /\ isGenerating' = TRUE
      /\ error' = NULL
      /\ generating' = Append(generating,
                          [request |-> [generatorId |-> generatorId,
                                        seed |-> actualSeed,
                                        parameters |-> <<>>,
                                        generator |-> generator]])
      /\ UNCHANGED <<currentSeed, lastResult, simulationConfig,
                     simulationResults, simulationProgress, isSimulating,
                     simulating, generated, layouts, sampled, executed>>

\* the timer of the k-th pending generate_once fires: the call returns and
\* generate() runs on from its await
generateSettles(k, now, elapsed) ==
  LET request == generating[k].request
      result == generate_once(request, now, elapsed)
  IN  /\ generating' = RemoveAt(generating, k)
      /\ isGenerating' = FALSE
      /\ IF result = Thrown
         THEN /\ error' = MessageOf(result)
              /\ UNCHANGED <<lastResult, currentSeed, generated, layouts, sampled>>
         ELSE /\ lastResult' = result
              /\ currentSeed' = request.seed
              /\ generated' = [generated EXCEPT
                                 ![request.seed] = IF @ < 2 THEN @ + 1 ELSE @]
              /\ layouts' = [layouts EXCEPT
                               ![request.seed] = @ \cup {result.data}]
              /\ sampled' = sampled \cup {[seed |-> request.seed,
                                              graph |-> GraphOf(request),
                                              data |-> result.data]}
              /\ UNCHANGED error
      /\ UNCHANGED <<simulationConfig, simulationResults, simulationProgress,
                     isSimulating, simulating, started, executed>>

\* what invoke("generate_once") can reject with when the application runs
\* on the Tauri backend (lib/invoke.ts hands the call to it)
Rejections == {[thrown |-> "Generation failed"]}

\* the k-th pending invoke("generate_once") rejects and generate() runs its
\* catch
generateRejects(k, thrown) ==
  /\ generating' = RemoveAt(generating, k)
  /\ error' = MessageOf(thrown)
  /\ isGenerating' = FALSE
  /\ UNCHANGED <<currentSeed, lastResult, simulationConfig, simulationResults,
                 simulationProgress, isSimulating, simulating, started,
                 generated, layouts, sampled, executed>>

\* what a run produced, without the readings of the clock
Outcome(result) ==
  [seed |-> result.seed, success |-> result.success, data |-> result.data,
   constraintResults |-> result.constraintResults]

\* runSimulation(config) up to its await: run_simulation enters its loop and
\* the first generate_once starts its timer
runSimulation(config) ==
  /\ Len(generating) + Len(simulating) < MaxInFlight
  /\ started < MaxCalls
  /\ started' = started + 1
  /\ isSimulating' = TRUE
  /\ simulationConfig' = config
  /\ simulationProgress' = 0
  /\ simulationResults' = NullObject
  /\ error' = NULL
  /\ simulating' = Append(simulating,
                      [config |-> config, results |-> <<>>, cancelled |-> FALSE])
  /\ UNCHANGED <<currentSeed, lastResult, isGenerating, generating,
                 generated, layouts, sampled, executed>>

\* the generate_once the k-th pending run_simulation awaits, for run i of its
\* loop
RunOf(k, now, elapsed) ==
  LET call == simulating[k]
  IN  generate_once([generatorId |-> call.config.generatorId,
                     seed |-> SimulationSeed(call.config, Len(call.results))],
                    now, elapsed)

\* runSimulation() running on from a run_simulation that threw
simulationRejects(k, thrown) ==
  /\ simulating' = RemoveAt(simulating, k)
  /\ error' = MessageOf(thrown)
  /\ isSimulating' = FALSE
  /\ UNCHANGED <<simulationResults, simulationProgress, executed>>

\* a run of the k-th pending run_simulation returns and the loop goes on to
\* the next run
simulationRuns(k, now, elapsed) ==
  LET call == simulating[k]
      result == RunOf(k, now, elapsed)
  IN  /\ Len(call.results) + 1 < call.config.runCount
      /\ IF result = Thrown
         THEN simulationRejects(k, result)
         ELSE /\ simulating' = [simulating EXCEPT
                                  ![k].results = Append(@, result)]
              /\ UNCHANGED <<error, isSimulating, simulationResults,
                             simulationProgress, executed>>
      /\ UNCHANGED <<currentSeed, lastResult, isGenerating, simulationConfig,
                     generating, started, generated, layouts, sampled>>

\* the last run of the k-th pending run_simulation returns: run_simulation
\* returns its SimulationResults and runSimulation() runs on from its await
simulationSettles(k, now, elapsed, total) ==
  LET call == simulating[k]
      result == RunOf(k, now, elapsed)
      results == Append(call.results, result)
  IN  /\ Len(call.results) + 1 >= call.config.runCount
      /\ IF result = Thrown
         THEN simulationRejects(k, result)
         ELSE /\ simulating' = RemoveAt(simulating, k)
              /\ simulationResults' =
                   SimulationResultsOf(call.config, results, total)
              /\ isSimulating' = FALSE
              /\ simulationProgress' = 100
              /\ executed' = [config |-> call.config,
                              results |-> [i \in 1..Len(results) |->
                                             Outcome(results[i])],
                              cancelled |-> call.cancelled]
              /\ UNCHANGED error
      /\ UNCHANGED <<currentSeed, lastResult, isGenerating, simulationConfig,
                     generating, started, generated, layouts, sampled>>

\* cancelSimulation(): cancel_simulation of the mock does nothing
cancelSimulation ==
  /\ isSimulating' = FALSE
  /\ simulating' = [k \in 1..Len(simulating) |->
                      [simulating[k] EXCEPT !.cancelled = TRUE]]
  /\ UNCHANGED <<currentSeed, lastResult, isGenerating, error,
                 simulationConfig, simulationResults, simulationProgress,
                 generating, started, generated, layouts, sampled, executed>>

clearResults ==
  /\ lastResult' = NullObject
  /\ simulationResults' = NullObject
  /\ error' = NULL
  /\ UNCHANGED <<currentSeed, isGenerating, simulationConfig,
                 simulationProgress, isSimulating, generating, simulating,
                 started, generated, layouts, sampled, executed>>

NextGeneration ==
  \/ \E seed \in Seeds : setSeed(seed)
        /\ UNCHANGED <<statsVars, projectVars, weightVars, editorVars, dungeonVars>>
  \/ randomizeSeed /\ UNCHANGED <<statsVars, projectVars, weightVars, editorVars, dungeonVars>>
  \/ \E generatorId \in GeneratorIds, seed \in SeedArguments,
        generator \in Generators : generate(generatorId, seed, generator)
        /\ UNCHANGED <<statsVars, projectVars, weightVars, editorVars, dungeonVars>>
  \/ \E k \in 1..Len(generating), now \in Times, elapsed \in Delays :
        generateSettles(k, now, elapsed)
        /\ UNCHANGED <<statsVars, projectVars, weightVars, editorVars, dungeonVars>>
  \/ \E k \in 1..Len(generating), thrown \in Rejections :
        generateRejects(k, thrown)
        /\ UNCHANGED <<statsVars, projectVars, weightVars, editorVars, dungeonVars>>
  \/ \E config \in SimulationConfigs : runSimulation(config)
        /\ UNCHANGED <<statsVars, projectVars, weightVars, editorVars, dungeonVars>>
  \/ \E k \in 1..Len(simulating), now \in Times, elapsed \in Delays :
        simulationRuns(k, now, elapsed)
        /\ UNCHANGED <<statsVars, projectVars, weightVars, editorVars, dungeonVars>>
  \/ \E k \in 1..Len(simulating), now \in Times, elapsed \in Delays :
        \E total \in {Sum([i \in 1..Len(simulating[k].results) |->
                             simulating[k].results[i].durationMs]) + elapsed} :
          simulationSettles(k, now, elapsed, total)
        /\ UNCHANGED <<statsVars, projectVars, weightVars, editorVars, dungeonVars>>
  \/ cancelSimulation /\ UNCHANGED <<statsVars, projectVars, weightVars, editorVars, dungeonVars>>
  \/ clearResults /\ UNCHANGED <<statsVars, projectVars, weightVars, editorVars, dungeonVars>>


\* the generation store over the mock backend
SpecGen == InitGeneration /\ [][NextGeneration]_vars

(***************************************************************************)
(* calcStats on its own: every dataset of 1..MaxLen integers of            *)
(* 0..MaxValue, in every order.                                            *)
(***************************************************************************)
MaxLen == 5
MaxValue == 5

Datasets == UNION {[1..n -> 0..MaxValue] : n \in 1..MaxLen}

InitStats ==
  /\ currentSeed = 0
  /\ GenerationIdle
  /\ dataset \in Datasets
  /\ statistics = NullObject
  /\ ProjectIdle
  /\ WeightsIdle
  /\ EditorIdle
  /\ DungeonIdle

compute ==
  /\ statistics = NullObject
  /\ statistics' = calcStats(dataset)
  /\ UNCHANGED <<dataset, genVars, projectVars, weightVars, editorVars, dungeonVars>>

NextStats == compute

SpecStats == InitStats /\ [][NextStats]_vars


(***************************************************************************)
(* useProjectStore (projectStore.ts) over the mock backend.                *)
(***************************************************************************)

\* the ids crypto.randomUUID() hands out, in the order it hands them out
UUIDs == <<"u1", "u2", "u3", "u4", "u5", "u6", "u7", "u8">>
randomUUID == UUIDs[uuids + 1]
\* ids a caller may pass: the ones handed out and one that never was
Ids == {UUIDs[k] : k \in 1..uuids} \cup {"u0"}

Names == {"Crypt"}
GeneratorTypes == {"dungeon"}
EditorNodeTypes == {"start", "room"}
Positions == {[x |-> 0, y |-> 0], [x |-> 1, y |-> 1]}
Paths == {"crypt.dforge"}
GeneratorUpdates == {[name |-> "Vault"], [description |-> Undefined]}
NodeUpdates == {[label |-> "Hall"]}
NewConstraints ==
  {[type |-> "connected", parameters |-> <<>>,
    errorMessage |-> "Rooms must connect", severity |-> "error"]}
ConstraintUpdates == {[severity |-> "warning"]}

\* new Date(now).toISOString()
toISOString(now) == <<"ISO", now>>

\* JSON.parse(JSON.stringify(project)): a property whose value is undefined
\* is left out; the other values of a project are strings, numbers, booleans,
\* arrays and objects and come back as they were
WithoutUndefined(object) ==
  IF "description" \in DOMAIN object /\ object.description = Undefined
  THEN [key \in DOMAIN object \ {"description"} |-> object[key]]
  ELSE object

JSONClone(value) ==
  [value EXCEPT !.generators =
     [k \in 1..Len(value.generators) |-> WithoutUndefined(value.generators[k])]]

\* Object.assign(target, source)
Assign(target, source) ==
  [key \in DOMAIN target \cup DOMAIN source |->
     IF key \in DOMAIN source THEN source[key] ELSE target[key]]

\* array.findIndex((item) => item.id === id), counted from 1; 0 if there is
\* no such item
IndexOfId(array, id) ==
  IF \E k \in 1..Len(array) : array[k].id = id
  THEN CHOOSE k \in 1..Len(array) :
         /\ array[k].id = id
         /\ \A j \in 1..(k - 1) : array[j].id # id
  ELSE 0

\* !value of a string or null
Falsy(value) == value = NULL \/ value = ""

createDefaultProject(id, name, created, modified) ==
  [id |-> id,
   name |-> name,
   version |-> "1.0.0",
   created |-> toISOString(created),
   modified |-> toISOString(modified),
   generators |-> <<>>,
   sharedAssets |-> <<>>,
   exportConfig |-> [defaultTarget |-> "typescript",
                     outputDir |-> "./generated",
                     includeRuntime |-> TRUE]]

createDefaultGenerator(id, name, type) ==
  [id |-> id,
   name |-> name,
   description |-> "",
   type |-> type,
   graph |-> [nodes |-> <<>>, edges |-> <<>>, groups |-> <<>>],
   constraints |-> <<>>,
   parameters |-> <<>>]

RoomIn == [id |-> "in", type |-> "input", dataType |-> "room", label |-> "In"]
RoomOut == [id |-> "out", type |-> "output", dataType |-> "room", label |-> "Out"]

getDefaultPorts(type) ==
  CASE type = "start" -> [inputs |-> <<>>, outputs |-> <<RoomOut>>]
    [] type = "output" -> [inputs |-> <<RoomIn>>, outputs |-> <<>>]
    [] type \in {"room", "room_chain"} ->
         [inputs |-> <<RoomIn>>, outputs |-> <<RoomOut>>]
    [] type = "branch" ->
         [inputs |-> <<RoomIn>>,
          outputs |-> <<[id |-> "out1", type |-> "output",
                         dataType |-> "room", label |-> "Path 1"],
                        [id |-> "out2", type |-> "output",
                         dataType |-> "room", label |-> "Path 2"]>>]
    [] type = "merge" ->
         [inputs |-> <<[id |-> "in1", type |-> "input",
                        dataType |-> "room", label |-> "Path 1"],
                       [id |-> "in2", type |-> "input",
                        dataType |-> "room", label |-> "Path 2"]>>,
          outputs |-> <<RoomOut>>]
    [] type \in {"spawn_point", "loot_drop", "encounter", "prop"} ->
         [inputs |-> <<[id |-> "room", type |-> "input",
                        dataType |-> "room", label |-> "Room"]>>,
          outputs |-> <<>>]
    [] OTHER ->
         [inputs |-> <<[id |-> "in", type |-> "input",
                        dataType |-> "any", label |-> "In"]>>,
          outputs |-> <<[id |-> "out", type |-> "output",
                         dataType |-> "any", label |-> "Out"]>>]

\* type.replace(/_/g, ' ').replace(/\b\w/g, c => c.toUpperCase())
LabelOf(type) ==
  CASE type = "start" -> "Start"
    [] type = "output" -> "Output"
    [] type = "subgraph" -> "Subgraph"
    [] type = "room" -> "Room"
    [] type = "room_chain" -> "Room Chain"
    [] type = "branch" -> "Branch"
    [] type = "merge" -> "Merge"
    [] type = "spawn_point" -> "Spawn Point"
    [] type = "loot_drop" -> "Loot Drop"
    [] type = "encounter" -> "Encounter"
    [] type = "prop" -> "Prop"
    [] type = "random_select" -> "Random Select"
    [] type = "sequence" -> "Sequence"
    [] type = "condition" -> "Condition"
    [] type = "loop" -> "Loop"
    [] type = "distribution" -> "Distribution"
    [] type = "curve" -> "Curve"
    [] type = "table" -> "Table"

Range(min, max) == [min |-> min, max |-> max]
Size(w, h) == [w |-> w, h |-> h]

getDefaultNodeData(type) ==
  [label |-> LabelOf(type)] @@
  CASE type = "room" ->
         [sizeRange |-> Range(Size(5, 5), Size(10, 10)),
          shape |-> "rectangular",
          doorCount |-> Range(1, 4),
          tags |-> <<>>]
    [] type = "room_chain" ->
         [countRange |-> Range(3, 5),
          roomSize |-> Range(Size(5, 5), Size(8, 8)),
          connectionStyle |-> "linear"]
    [] type = "branch" -> [weights |-> <<Ratio(1, 2), Ratio(1, 2)>>]
    [] type = "merge" -> [strategy |-> "all"]
    [] type = "spawn_point" ->
         [entityType |-> "enemy",
          countRange |-> Range(1, 3),
          spawnRadius |-> 2]
    [] type = "loot_drop" ->
         [lootTable |-> "default",
          dropChance |-> Ratio(1, 1),
          itemCount |-> Range(1, 3)]
    [] type = "encounter" ->
         [encounterType |-> "combat",
          difficulty |-> "medium",
          enemyCount |-> Range(1, 4),
          rewardOnComplete |-> TRUE]
    [] type = "start" -> [spawnArea |-> "center"]
    [] type = "output" -> [exitType |-> "stairs", requiresKey |-> FALSE]
    [] OTHER -> <<>>

\* snapshots the history keeps
HistoryLimit == 50

\* _pushHistory(description): the history and its flags afterwards
Unlimited(description) ==
  IF project = NullObject
  THEN [history |-> history, historyIndex |-> historyIndex,
        canUndo |-> canUndo, canRedo |-> canRedo]
  ELSE LET pushed == Append(SubSeq(history, 1, historyIndex + 1),
                            [project |-> JSONClone(project),
                             description |-> description])
       IN  [history |-> pushed,
            historyIndex |-> Len(pushed) - 1,
            canUndo |-> Len(pushed) > 1,
            canRedo |-> FALSE]

Untruncated(description) ==
  IF project = NullObject
  THEN [history |-> history, historyIndex |-> historyIndex,
        canUndo |-> canUndo, canRedo |-> canRedo]
  ELSE LET pushed == Append(history,
                            [project |-> JSONClone(project),
                             description |-> description])
           newHistory == IF Len(pushed) > HistoryLimit
                         THEN Tail(pushed) ELSE pushed
       IN  [history |-> newHistory,
            historyIndex |-> Len(newHistory) - 1,
            canUndo |-> Len(newHistory) > 1,
            canRedo |-> FALSE]

pushHistory(description) ==
  IF project = NullObject
  THEN [history |-> history, historyIndex |-> historyIndex,
        canUndo |-> canUndo, canRedo |-> canRedo]
  ELSE LET pushed == Append(SubSeq(history, 1, historyIndex + 1),
                            [project |-> JSONClone(project),
                             description |-> description])
           newHistory == IF Len(pushed) > HistoryLimit
                         THEN Tail(pushed) ELSE pushed
       IN  [history |-> newHistory,
            historyIndex |-> Len(newHistory) - 1,
            canUndo |-> Len(newHistory) > 1,
            canRedo |-> FALSE]

PushHistory(description) ==
  /\ history' = pushHistory(description).history
  /\ historyIndex' = pushHistory(description).historyIndex
  /\ canUndo' = pushHistory(description).canUndo
  /\ canRedo' = pushHistory(description).canRedo

\* _markDirty()
markDirty == isDirty' = TRUE

\* an action of the store is called
Called ==
  /\ calls > 0
  /\ calls' = calls - 1

\* the call is one of the mutations that record history, made with a project
\* open in a run of such mutations that began with newProject()
Recorded ==
  /\ mutation' = IF project # NullObject /\ mutation.stage \in {"new", "mutated"}
                 THEN [stage |-> "mutated", before |-> project]
                 ELSE NoMutation
  /\ roundTrip' = NoRoundTrip
  /\ redoCut' = IF project # NullObject /\ redoCut.stage = "undone"
                THEN [stage |-> "cut", history |-> history,
                      historyIndex |-> historyIndex]
                ELSE NoRedoCut

Unrecorded ==
  /\ mutation' = NoMutation
  /\ roundTrip' = NoRoundTrip
  /\ redoCut' = NoRedoCut

\* state.project?.generators.find(g => g.id === id), as an index
GeneratorIndex(id) ==
  IF project = NullObject THEN 0 ELSE IndexOfId(project.generators, id)

newProject(name, created, modified) ==
  LET created_project == createDefaultProject(randomUUID, name, created, modified)
  IN  /\ Called
      /\ uuids < Len(UUIDs)
      /\ uuids' = uuids + 1
      /\ project' = created_project
      /\ filePath' = NULL
      /\ isDirty' = FALSE
      /\ activeGeneratorId' = NULL
      /\ history' = <<[project |-> JSONClone(created_project),
                       description |-> <<"Initial">>]>>
      /\ historyIndex' = 0
      /\ canUndo' = FALSE
      /\ canRedo' = FALSE
      /\ mutation' = [stage |-> "new", before |-> NullObject]
      /\ roundTrip' = NoRoundTrip
      /\ redoCut' = NoRedoCut
      /\ UNCHANGED localStorage

\* openProject(path): open_project of the mock throws, and the store throws
\* the error on
openProject(path) ==
  /\ Called
  /\ Unrecorded
  /\ UNCHANGED <<project, filePath, isDirty, activeGeneratorId, history,
                 historyIndex, canUndo, canRedo, localStorage, uuids>>

\* localStorage.setItem(`dungeon-forge-project-${project.id}`,
\* JSON.stringify(project))
save_project(saved) ==
  localStorage' = [key \in DOMAIN localStorage \cup {saved.id} |->
                     IF key = saved.id THEN JSONClone(saved)
                     ELSE localStorage[key]]

saveProject(now) ==
  /\ Called
  /\ Unrecorded
  /\ IF project # NullObject /\ ~Falsy(filePath)
     THEN /\ save_project(project)
          /\ isDirty' = FALSE
          /\ project' = [project EXCEPT !.modified = toISOString(now)]
     ELSE UNCHANGED <<project, isDirty, localStorage>>
  /\ UNCHANGED <<filePath, activeGeneratorId, history, historyIndex,
                 canUndo, canRedo, uuids>>

saveProjectAs(path, now) ==
  /\ Called
  /\ Unrecorded
  /\ IF project # NullObject
     THEN /\ save_project(project)
          /\ filePath' = path
          /\ isDirty' = FALSE
          /\ project' = [project EXCEPT !.modified = toISOString(now)]
     ELSE UNCHANGED <<project, filePath, isDirty, localStorage>>
  /\ UNCHANGED <<activeGeneratorId, history, historyIndex, canUndo, canRedo,
                 uuids>>

closeProject ==
  /\ Called
  /\ Unrecorded
  /\ project' = NullObject
  /\ filePath' = NULL
  /\ isDirty' = FALSE
  /\ activeGeneratorId' = NULL
  /\ history' = <<>>
  /\ historyIndex' = -1
  /\ canUndo' = FALSE
  /\ canRedo' = FALSE
  /\ UNCHANGED <<localStorage, uuids>>

addGenerator(name, type) ==
  LET generator == createDefaultGenerator(randomUUID, name, type)
  IN  /\ Called
      /\ Recorded
      /\ uuids < Len(UUIDs)
      /\ uuids' = uuids + 1
      /\ PushHistory(<<"Add generator: ", name>>)
      /\ IF project # NullObject
         THEN /\ project' = [project EXCEPT !.generators = Append(@, generator)]
              /\ activeGeneratorId' = generator.id
         ELSE UNCHANGED <<project, activeGeneratorId>>
      /\ markDirty
      /\ UNCHANGED <<filePath, localStorage>>

\* generators.filter(g => g.id !== id)
OtherGenerators(id) == SelectSeq(project.generators, LAMBDA g : g.id # id)

removeGenerator(id) ==
  /\ Called
  /\ Recorded
  /\ PushHistory(<<"Remove generator">>)
  /\ IF project # NullObject
     THEN /\ project' = [project EXCEPT !.generators = OtherGenerators(id)]
          /\ activeGeneratorId' =
               IF activeGeneratorId = id
               THEN IF OtherGenerators(id) # <<>>
                    THEN OtherGenerators(id)[1].id ELSE NULL
               ELSE activeGeneratorId
     ELSE UNCHANGED <<project, activeGeneratorId>>
  /\ markDirty
  /\ UNCHANGED <<filePath, localStorage, uuids>>

setActiveGenerator(id) ==
  /\ Called
  /\ Unrecorded
  /\ activeGeneratorId' = id
  /\ UNCHANGED <<project, filePath, isDirty, history, historyIndex, canUndo,
                 canRedo, localStorage, uuids>>

updateGenerator(id, updates) ==
  /\ Called
  /\ Recorded
  /\ PushHistory(<<"Update generator">>)
  /\ IF GeneratorIndex(id) # 0
     THEN project' = [project EXCEPT
                        !.generators[GeneratorIndex(id)] = Assign(@, updates)]
     ELSE UNCHANGED project
  /\ markDirty
  /\ UNCHANGED <<filePath, activeGeneratorId, localStorage, uuids>>

addNode(type, position) ==
  LET node == [id |-> randomUUID,
               type |-> type,
               position |-> position,
               data |-> getDefaultNodeData(type),
               inputs |-> getDefaultPorts(type).inputs,
               outputs |-> getDefaultPorts(type).outputs]
  IN  /\ Called
      /\ IF project = NullObject \/ Falsy(activeGeneratorId)
         THEN /\ Unrecorded
              /\ UNCHANGED <<project, isDirty, history, historyIndex,
                             canUndo, canRedo, uuids>>
         ELSE /\ Recorded
              /\ uuids < Len(UUIDs)
              /\ uuids' = uuids + 1
              /\ PushHistory(<<"Add node: ", type>>)
              /\ IF GeneratorIndex(activeGeneratorId) # 0
                 THEN project' =
                        [project EXCEPT
                           !.generators[GeneratorIndex(activeGeneratorId)]
                              .graph.nodes = Append(@, node)]
                 ELSE UNCHANGED project
              /\ markDirty
      /\ UNCHANGED <<filePath, activeGeneratorId, localStorage>>

\* generator?.graph.nodes.find(n => n.id === id), as an index
NodeIndex(id) ==
  IF GeneratorIndex(activeGeneratorId) = 0 THEN 0
  ELSE IndexOfId(project.generators[GeneratorIndex(activeGeneratorId)]
                   .graph.nodes, id)

updateNode(id, data) ==
  /\ Called
  /\ Recorded
  /\ PushHistory(<<"Update node">>)
  /\ IF NodeIndex(id) # 0
     THEN project' =
            [project EXCEPT
               !.generators[GeneratorIndex(activeGeneratorId)]
                  .graph.nodes[NodeIndex(id)].data = Assign(@, data)]
     ELSE UNCHANGED project
  /\ markDirty
  /\ UNCHANGED <<filePath, activeGeneratorId, localStorage, uuids>>

KeepsEdges(id) ==
  /\ Called
  /\ Recorded
  /\ PushHistory(<<"Delete node">>)
  /\ IF GeneratorIndex(activeGeneratorId) # 0
     THEN project' =
            [project EXCEPT
               !.generators[GeneratorIndex(activeGeneratorId)].graph.nodes =
                  SelectSeq(@, LAMBDA n : n.id # id)]
     ELSE UNCHANGED project
  /\ markDirty
  /\ UNCHANGED <<filePath, activeGeneratorId, localStorage, uuids>>

deleteNode(id) ==
  /\ Called
  /\ Recorded
  /\ PushHistory(<<"Delete node">>)
  /\ IF GeneratorIndex(activeGeneratorId) # 0
     THEN project' =
            [project EXCEPT
               !.generators[GeneratorIndex(activeGeneratorId)].graph =
                  [@ EXCEPT
                     !.nodes = SelectSeq(@, LAMBDA n : n.id # id),
                     !.edges = SelectSeq(@, LAMBDA e :
                                 e.source.nodeId # id /\ e.target.nodeId # id)]]
     ELSE UNCHANGED project
  /\ markDirty
  /\ UNCHANGED <<filePath, activeGeneratorId, localStorage, uuids>>

moveNode(id, position) ==
  /\ Called
  /\ Unrecorded
  /\ IF NodeIndex(id) # 0
     THEN project' =
            [project EXCEPT
               !.generators[GeneratorIndex(activeGeneratorId)]
                  .graph.nodes[NodeIndex(id)].position = position]
     ELSE UNCHANGED project
  /\ markDirty
  /\ UNCHANGED <<filePath, activeGeneratorId, history, historyIndex, canUndo,
                 canRedo, localStorage, uuids>>

addEdge(source, target) ==
  LET edge == [id |-> randomUUID, source |-> source, target |-> target]
  IN  /\ Called
      /\ IF project = NullObject \/ Falsy(activeGeneratorId)
         THEN /\ Unrecorded
              /\ UNCHANGED <<project, isDirty, history, historyIndex,
                             canUndo, canRedo, uuids>>
         ELSE /\ Recorded
              /\ uuids < Len(UUIDs)
              /\ uuids' = uuids + 1
              /\ PushHistory(<<"Add connection">>)
              /\ IF GeneratorIndex(activeGeneratorId) # 0
                 THEN project' =
                        [project EXCEPT
                           !.generators[GeneratorIndex(activeGeneratorId)]
                              .graph.edges = Append(@, edge)]
                 ELSE UNCHANGED project
              /\ markDirty
      /\ UNCHANGED <<filePath, activeGeneratorId, localStorage>>

deleteEdge(id) ==
  /\ Called
  /\ Recorded
  /\ PushHistory(<<"Delete connection">>)
  /\ IF GeneratorIndex(activeGeneratorId) # 0
     THEN project' =
            [project EXCEPT
               !.generators[GeneratorIndex(activeGeneratorId)].graph.edges =
                  SelectSeq(@, LAMBDA e : e.id # id)]
     ELSE UNCHANGED project
  /\ markDirty
  /\ UNCHANGED <<filePath, activeGeneratorId, localStorage, uuids>>

addConstraint(constraint) ==
  /\ Called
  /\ Recorded
  /\ PushHistory(<<"Add constraint">>)
  /\ IF GeneratorIndex(activeGeneratorId) # 0
     THEN /\ uuids < Len(UUIDs)
          /\ uuids' = uuids + 1
          /\ project' =
               [project EXCEPT
                  !.generators[GeneratorIndex(activeGeneratorId)].constraints =
                     Append(@, Assign(constraint, [id |-> randomUUID]))]
     ELSE UNCHANGED <<project, uuids>>
  /\ markDirty
  /\ UNCHANGED <<filePath, activeGeneratorId, localStorage>>

\* generator?.constraints.find(c => c.id === id), as an index
ConstraintIndex(id) ==
  IF GeneratorIndex(activeGeneratorId) = 0 THEN 0
  ELSE IndexOfId(project.generators[GeneratorIndex(activeGeneratorId)]
                   .constraints, id)

updateConstraint(id, updates) ==
  /\ Called
  /\ Recorded
  /\ PushHistory(<<"Update constraint">>)
  /\ IF ConstraintIndex(id) # 0
     THEN project' =
            [project EXCEPT
               !.generators[GeneratorIndex(activeGeneratorId)]
                  .constraints[ConstraintIndex(id)] = Assign(@, updates)]
     ELSE UNCHANGED project
  /\ markDirty
  /\ UNCHANGED <<filePath, activeGeneratorId, localStorage, uuids>>

deleteConstraint(id) ==
  /\ Called
  /\ Recorded
  /\ PushHistory(<<"Delete constraint">>)
  /\ IF GeneratorIndex(activeGeneratorId) # 0
     THEN project' =
            [project EXCEPT
               !.generators[GeneratorIndex(activeGeneratorId)].constraints =
                  SelectSeq(@, LAMBDA c : c.id # id)]
     ELSE UNCHANGED project
  /\ markDirty
  /\ UNCHANGED <<filePath, activeGeneratorId, localStorage, uuids>>

undo ==
  /\ Called
  /\ IF historyIndex > 0
     THEN /\ project' = JSONClone(history[historyIndex].project)
          /\ historyIndex' = historyIndex - 1
          /\ canUndo' = (historyIndex - 1 > 0)
          /\ canRedo' = TRUE
          /\ markDirty
     ELSE UNCHANGED <<project, historyIndex, canUndo, canRedo, isDirty>>
  /\ mutation' = IF mutation.stage = "mutated"
                 THEN [mutation EXCEPT !.stage = "undone"] ELSE NoMutation
  /\ roundTrip' = IF canUndo THEN [stage |-> "undone", was |-> project]
                  ELSE NoRoundTrip
  /\ redoCut' = IF historyIndex > 0 \/ redoCut.stage = "undone"
                THEN [stage |-> "undone"] ELSE NoRedoCut
  /\ UNCHANGED <<filePath, activeGeneratorId, history, localStorage, uuids>>

redo ==
  /\ Called
  /\ IF historyIndex < Len(history) - 1
     THEN /\ project' = JSONClone(history[historyIndex + 2].project)
          /\ historyIndex' = historyIndex + 1
          /\ canUndo' = TRUE
          /\ canRedo' = (historyIndex + 1 < Len(history) - 1)
          /\ markDirty
     ELSE UNCHANGED <<project, historyIndex, canUndo, canRedo, isDirty>>
  /\ mutation' = NoMutation
  /\ roundTrip' = IF roundTrip.stage = "undone"
                  THEN [roundTrip EXCEPT !.stage = "redone"] ELSE NoRoundTrip
  /\ redoCut' = IF redoCut.stage = "cut"
                THEN [stage |-> "redone", project |-> project,
                      historyIndex |-> historyIndex]
                ELSE NoRedoCut
  /\ UNCHANGED <<filePath, activeGeneratorId, history, localStorage, uuids>>

PortRefs(portId) == {[nodeId |-> id, portId |-> portId] : id \in Ids}

NextProject ==
  \/ \E name \in Names, created \in Times, modified \in Times :
        created <= modified /\ newProject(name, created, modified)
        /\ UNCHANGED <<genVars, statsVars, weightVars, editorVars, dungeonVars>>
  \/ \E path \in Paths : openProject(path)
        /\ UNCHANGED <<genVars, statsVars, weightVars, editorVars, dungeonVars>>
  \/ \E now \in Times : saveProject(now)
        /\ UNCHANGED <<genVars, statsVars, weightVars, editorVars, dungeonVars>>
  \/ \E path \in Paths, now \in Times : saveProjectAs(path, now)
        /\ UNCHANGED <<genVars, statsVars, weightVars, editorVars, dungeonVars>>
  \/ closeProject /\ UNCHANGED <<genVars, statsVars, weightVars, editorVars, dungeonVars>>
  \/ \E name \in Names, type \in GeneratorTypes : addGenerator(name, type)
        /\ UNCHANGED <<genVars, statsVars, weightVars, editorVars, dungeonVars>>
  \/ \E id \in Ids : removeGenerator(id)
        /\ UNCHANGED <<genVars, statsVars, weightVars, editorVars, dungeonVars>>
  \/ \E id \in Ids \cup {NULL} : setActiveGenerator(id)
        /\ UNCHANGED <<genVars, statsVars, weightVars, editorVars, dungeonVars>>
  \/ \E id \in Ids, updates \in GeneratorUpdates : updateGenerator(id, updates)
        /\ UNCHANGED <<genVars, statsVars, weightVars, editorVars, dungeonVars>>
  \/ \E type \in EditorNodeTypes, position \in Positions :
        addNode(type, position)
        /\ UNCHANGED <<genVars, statsVars, weightVars, editorVars, dungeonVars>>
  \/ \E id \in Ids, data \in NodeUpdates : updateNode(id, data)
        /\ UNCHANGED <<genVars, statsVars, weightVars, editorVars, dungeonVars>>
  \/ \E id \in Ids : deleteNode(id)
        /\ UNCHANGED <<genVars, statsVars, weightVars, editorVars, dungeonVars>>
  \/ \E id \in Ids, position \in Positions : moveNode(id, position)
        /\ UNCHANGED <<genVars, statsVars, weightVars, editorVars, dungeonVars>>
  \/ \E source \in PortRefs("out"), target \in PortRefs("in") :
        addEdge(source, target)
        /\ UNCHANGED <<genVars, statsVars, weightVars, editorVars, dungeonVars>>
  \/ \E id \in Ids : deleteEdge(id)
        /\ UNCHANGED <<genVars, statsVars, weightVars, editorVars, dungeonVars>>
  \/ \E constraint \in NewConstraints : addConstraint(constraint)
        /\ UNCHANGED <<genVars, statsVars, weightVars, editorVars, dungeonVars>>
  \/ \E id \in Ids, updates \in ConstraintUpdates :
        updateConstraint(id, updates)
        /\ UNCHANGED <<genVars, statsVars, weightVars, editorVars, dungeonVars>>
  \/ \E id \in Ids : deleteConstraint(id)
        /\ UNCHANGED <<genVars, statsVars, weightVars, editorVars, dungeonVars>>
  \/ undo /\ UNCHANGED <<genVars, statsVars, weightVars, editorVars, dungeonVars>>
  \/ redo /\ UNCHANGED <<genVars, statsVars, weightVars, editorVars, dungeonVars>>


InitProject ==
  /\ currentSeed = 0
  /\ GenerationIdle
  /\ StatsIdle
  /\ ProjectIdle
  /\ WeightsIdle
  /\ EditorIdle
  /\ DungeonIdle

\* the project store over the mock backend
SpecProject == InitProject /\ [][NextProject]_vars

\* the project newProject() creates, and the one addGenerator() makes of it
CreatedProject == createDefaultProject(UUIDs[1], "Crypt", 0, 0)
OpenedProject ==
  [CreatedProject EXCEPT
     !.generators = <<createDefaultGenerator(UUIDs[2], "Crypt", "dungeon")>>]

(***************************************************************************)
(* A long editing session: a new project, then enough recorded mutations   *)
(* for the history to reach its limit, with undo and redo between them.    *)
(***************************************************************************)
MaxPushes == 52

\* the store after newProject("Crypt"), with MaxPushes calls to follow
InitHistory ==
  /\ currentSeed = 0
  /\ GenerationIdle
  /\ StatsIdle
  /\ WeightsIdle
  /\ EditorIdle
  /\ DungeonIdle
  /\ project = CreatedProject
  /\ filePath = NULL
  /\ isDirty = FALSE
  /\ activeGeneratorId = NULL
  /\ history = <<[project |-> JSONClone(CreatedProject),
                  description |-> <<"Initial">>]>>
  /\ historyIndex = 0
  /\ canUndo = FALSE
  /\ canRedo = FALSE
  /\ localStorage = <<>>
  /\ uuids = 1
  /\ calls = MaxPushes
  /\ mutation = [stage |-> "new", before |-> NullObject]
  /\ roundTrip = NoRoundTrip
  /\ redoCut = NoRedoCut

NextHistory ==
  \/ newProject("Crypt", 0, 0)
        /\ UNCHANGED <<genVars, statsVars, weightVars, editorVars, dungeonVars>>
  \/ closeProject /\ UNCHANGED <<genVars, statsVars, weightVars, editorVars, dungeonVars>>
  \/ deleteNode("u0") /\ UNCHANGED <<genVars, statsVars, weightVars, editorVars, dungeonVars>>
  \/ undo /\ UNCHANGED <<genVars, statsVars, weightVars, editorVars, dungeonVars>>
  \/ redo /\ UNCHANGED <<genVars, statsVars, weightVars, editorVars, dungeonVars>>

\* the project store in a long editing session
SpecHistory == InitHistory /\ [][NextHistory]_vars

(***************************************************************************)
(* The node editor (NodeEditor.tsx) over the project store: a project with *)
(* one generator is open, and the editor drops nodes, connects handles,    *)
(* removes nodes and edges, and undoes and redoes.                         *)
(***************************************************************************)
\* the graph the editor shows: that of the active generator
ActiveGraph ==
  IF GeneratorIndex(activeGeneratorId) = 0
  THEN [nodes |-> <<>>, edges |-> <<>>, groups |-> <<>>]
  ELSE project.generators[GeneratorIndex(activeGeneratorId)].graph

\* the connections the canvas can hand to onConnect: from a source handle of
\* a node it shows to a target handle of a node it shows (BaseNode.tsx gives
\* every handle the id of its port)
Connections ==
  LET nodes == ActiveGraph.nodes
  IN  UNION {{[source |-> nodes[i].id,
               sourceHandle |-> nodes[i].outputs[p].id,
               target |-> nodes[j].id,
               targetHandle |-> nodes[j].inputs[q].id] :
                p \in 1..Len(nodes[i].outputs),
                q \in 1..Len(nodes[j].inputs)} :
               i \in 1..Len(nodes), j \in 1..Len(nodes)}

onConnect(connection) ==
  /\ ~Falsy(connection.source)
  /\ ~Falsy(connection.target)
  /\ addEdge([nodeId |-> connection.source,
              portId |-> IF connection.sourceHandle = NULL THEN "out"
                         ELSE connection.sourceHandle],
             [nodeId |-> connection.target,
              portId |-> IF connection.targetHandle = NULL THEN "in"
                         ELSE connection.targetHandle])

\* the store after newProject("Crypt") and addGenerator("Crypt", "dungeon"):
\* the graph is empty, and MaxOps calls of the editor follow
InitEditor ==
  /\ currentSeed = 0
  /\ GenerationIdle
  /\ StatsIdle
  /\ WeightsIdle
  /\ EditorIdle
  /\ DungeonIdle
  /\ project = OpenedProject
  /\ filePath = NULL
  /\ isDirty = TRUE
  /\ activeGeneratorId = UUIDs[2]
  /\ history = <<[project |-> JSONClone(CreatedProject),
                  description |-> <<"Initial">>],
                 [project |-> JSONClone(CreatedProject),
                  description |-> <<"Add generator: ", "Crypt">>]>>
  /\ historyIndex = 1
  /\ canUndo = TRUE
  /\ canRedo = FALSE
  /\ localStorage = <<>>
  /\ uuids = 2
  /\ calls = MaxOps
  /\ mutation = [stage |-> "mutated", before |-> CreatedProject]
  /\ roundTrip = NoRoundTrip
  /\ redoCut = NoRedoCut

NextEditor ==
  \/ \E type \in EditorNodeTypes, position \in Positions :
        addNode(type, position)
        /\ UNCHANGED <<genVars, statsVars, weightVars, editorVars, dungeonVars>>
  \/ \E connection \in Connections : onConnect(connection)
        /\ UNCHANGED <<genVars, statsVars, weightVars, editorVars, dungeonVars>>
  \/ \E id \in Ids : deleteNode(id)
        /\ UNCHANGED <<genVars, statsVars, weightVars, editorVars, dungeonVars>>
  \/ \E id \in Ids : deleteEdge(id)
        /\ UNCHANGED <<genVars, statsVars, weightVars, editorVars, dungeonVars>>
  \/ undo /\ UNCHANGED <<genVars, statsVars, weightVars, editorVars, dungeonVars>>
  \/ redo /\ UNCHANGED <<genVars, statsVars, weightVars, editorVars, dungeonVars>>

\* the node editor over the project store
SpecEditor == InitEditor /\ [][NextEditor]_vars

(***************************************************************************)
(* BranchWeightsEditor (NodePropertiesPanel.tsx).  A weight is kept as an  *)
(* exact fraction in lowest terms: the operations are modelled without the *)
(* rounding of the JavaScript double.                                      *)
(***************************************************************************)
\* paths a branch may have, and operations of the editor in one behaviour
MaxPaths == 3
MaxEdits == 2

RECURSIVE GCD(_, _)
GCD(a, b) == IF b = 0 THEN a ELSE GCD(b, a % b)

\* num / den in lowest terms, for num >= 0 and den > 0
Fraction(num, den) ==
  [num |-> num \div GCD(num, den), den |-> den \div GCD(num, den)]

\* a + b, a * b and a / b
Plus(a, b) == Fraction(a.num * b.den + b.num * a.den, a.den * b.den)
Product(a, b) == Fraction(a.num * b.num, a.den * b.den)
Over(a, b) == Fraction(a.num * b.den, a.den * b.num)
\* 1 - a, for a <= 1
OneMinus(a) == Fraction(a.den - a.num, a.den)

RECURSIVE Total(_)
\* array.reduce((a, b) => a + b, 0)
Total(array) ==
  IF array = <<>> THEN Fraction(0, 1)
  ELSE Plus(Total(SubSeq(array, 1, Len(array) - 1)), array[Len(array)])

\* the weights a branch node may come with: the default [0.5, 0.5] and other
\* vectors of positive numbers
WeightValues == {Fraction(1, 4), Fraction(1, 2), Fraction(1, 1), Fraction(2, 1)}
WeightVectors == UNION {[1..n -> WeightValues] : n \in 2..MaxPaths}
\* what the slider of a path can be set to (min 1, max 100)
SliderValues == {1, 50, 100}

\* onChange(newWeights) after the operation op of the editor
onChange(newWeights, op, index) ==
  /\ weights' = newWeights
  /\ edit' = [op |-> op, index |-> index, before |-> weights,
              count |-> edit.count + 1]

addPath ==
  LET newWeight == Fraction(1, Len(weights) + 1)
      normalizedWeights == [i \in 1..Len(weights) |->
                              Product(weights[i], OneMinus(newWeight))]
  IN  /\ Len(weights) < MaxPaths
      /\ edit.count < MaxEdits
      /\ onChange(Append(normalizedWeights, newWeight), "addPath", Len(weights))

\* weights.filter((_, i) => i !== index), index counted from 0
WithoutPath(index) ==
  SubSeq(weights, 1, index) \o SubSeq(weights, index + 2, Len(weights))

removePath(index) ==
  /\ edit.count < MaxEdits
  /\ IF Len(weights) <= 2
     THEN /\ edit' = [NoEdit EXCEPT !.count = edit.count + 1]
          /\ UNCHANGED weights
     ELSE onChange([i \in 1..(Len(weights) - 1) |->
                      Over(WithoutPath(index)[i], Total(WithoutPath(index)))],
                   "removePath", index)

\* newWeights[index] = value / 100, index counted from 0
WithWeight(index, value) ==
  [weights EXCEPT ![index + 1] = Fraction(value, 100)]

updateWeight(index, value) ==
  /\ edit.count < MaxEdits
  /\ onChange([i \in 1..Len(weights) |->
                 Over(WithWeight(index, value)[i],
                      Total(WithWeight(index, value)))],
              "updateWeight", index)

InitWeights ==
  /\ currentSeed = 0
  /\ GenerationIdle
  /\ StatsIdle
  /\ ProjectIdle
  /\ weights \in WeightVectors
  /\ edit = NoEdit
  /\ EditorIdle
  /\ DungeonIdle

NextWeights ==
  \/ addPath /\ UNCHANGED <<genVars, statsVars, projectVars, editorVars, dungeonVars>>
  \/ \E index \in 0..(Len(weights) - 1) : removePath(index)
        /\ UNCHANGED <<genVars, statsVars, projectVars, editorVars, dungeonVars>>
  \/ \E index \in 0..(Len(weights) - 1), value \in SliderValues :
        updateWeight(index, value)
        /\ UNCHANGED <<genVars, statsVars, projectVars, editorVars, dungeonVars>>

\* the weights editor on its own
SpecWeights == InitWeights /\ [][NextWeights]_vars

(***************************************************************************)
(* A SeededRandom instance and generateDungeon on their own (tauriMock.ts): *)
(* the instance is constructed with a seed and its methods are called;      *)
(* generateDungeon is called with the same seed.                            *)
(***************************************************************************)
MaxGivenSeed == 47
MaxNextCalls == 5
GivenSeeds == 0..MaxGivenSeed
\* bounds generateDungeon calls nextInt with, and arrays it calls pick with
IntRanges == {<<5, 12>>, <<-3, 8>>, <<0, 4>>}
PickArrays == {themes, spawnTypes}

\* every method starts with this.seed = (this.seed * 1103515245 + 12345)
\* & 0x7fffffff
Advanced ==
  /\ nextCalls < MaxNextCalls
  /\ nextCalls' = nextCalls + 1
  /\ randomSeed' = NextSeed(randomSeed)
  /\ UNCHANGED <<givenSeed, dungeonLayout>>

callNext ==
  /\ Advanced
  /\ lastDraw' = [call |-> "next", numerator |-> randomSeed',
                  denominator |-> Mask31]

callNextInt(min, max) ==
  /\ Advanced
  /\ lastDraw' = [call |-> "nextInt", min |-> min, max |-> max,
                  value |-> nextInt(randomSeed', min, max)]

callPick(array) ==
  /\ Advanced
  /\ lastDraw' = [call |-> "pick", array |-> array,
                  value |-> pick(randomSeed', array)]

callGenerateDungeon ==
  /\ dungeonLayout = NullObject
  /\ dungeonLayout' = generateDungeon(givenSeed)
  /\ UNCHANGED <<givenSeed, randomSeed, lastDraw, nextCalls>>

InitDungeon ==
  /\ currentSeed = 0
  /\ GenerationIdle
  /\ StatsIdle
  /\ ProjectIdle
  /\ WeightsIdle
  /\ EditorIdle
  /\ givenSeed \in GivenSeeds
  /\ randomSeed = NewSeededRandom(givenSeed)
  /\ lastDraw = NoDraw
  /\ nextCalls = 0
  /\ dungeonLayout = NullObject

NextDungeon ==
  \/ callNext
        /\ UNCHANGED <<genVars, statsVars, projectVars, weightVars, editorVars>>
  \/ \E range \in IntRanges : callNextInt(range[1], range[2])
        /\ UNCHANGED <<genVars, statsVars, projectVars, weightVars, editorVars>>
  \/ \E array \in PickArrays : callPick(array)
        /\ UNCHANGED <<genVars, statsVars, projectVars, weightVars, editorVars>>
  \/ callGenerateDungeon
        /\ UNCHANGED <<genVars, statsVars, projectVars, weightVars, editorVars>>

\* the random generator and the dungeon generator on their own
SpecDungeon == InitDungeon /\ [][NextDungeon]_vars

(***************************************************************************)
(* The editor store (editorStore.ts) and the handlers of the node editor   *)
(* that select (NodeEditor.tsx).  The viewport, the active tool and the    *)
(* other two panels take no part in selection and are left out.            *)
(***************************************************************************)
MaxSelected == 2
NodeIds == {"n1", "n2", "n3"}
EdgeIds == {"e1", "e2"}

\* [...new Set(array)]: the elements of array in the order they first occur
RECURSIVE NewSet(_)
NewSet(array) ==
  IF array = <<>> THEN <<>>
  ELSE LET front == NewSet(SubSeq(array, 1, Len(array) - 1))
           last == array[Len(array)]
       IN  IF \E k \in 1..Len(front) : front[k] = last
           THEN front ELSE Append(front, last)

\* what the canvas reports as selected: distinct ids, MaxSelected at most
Selections(ids) ==
  {array \in UNION {[1..n -> ids] : n \in 0..MaxSelected} :
     NewSet(array) = array}

\* the two fields selectNodes(ids, append) sets
NodesSelected(selection, ids, append) ==
  [selectedNodeIds |-> IF append
                       THEN NewSet(selection.selectedNodeIds \o ids)
                       ELSE ids,
   selectedEdgeIds |-> IF append THEN selection.selectedEdgeIds ELSE <<>>]

\* the two fields selectEdges(ids, append) sets
EdgesSelected(selection, ids, append) ==
  [selectedEdgeIds |-> IF append
                       THEN NewSet(selection.selectedEdgeIds \o ids)
                       ELSE ids,
   selectedNodeIds |-> IF append THEN selection.selectedNodeIds ELSE <<>>]

Selection ==
  [selectedNodeIds |-> selectedNodeIds, selectedEdgeIds |-> selectedEdgeIds]

selectNodes(ids, append) ==
  /\ selectedNodeIds' = NodesSelected(Selection, ids, append).selectedNodeIds
  /\ selectedEdgeIds' = NodesSelected(Selection, ids, append).selectedEdgeIds
  /\ reported' = NoReport
  /\ UNCHANGED propertiesPanelOpen

selectEdges(ids, append) ==
  /\ selectedEdgeIds' = EdgesSelected(Selection, ids, append).selectedEdgeIds
  /\ selectedNodeIds' = EdgesSelected(Selection, ids, append).selectedNodeIds
  /\ reported' = NoReport
  /\ UNCHANGED propertiesPanelOpen

clearSelection ==
  /\ selectedNodeIds' = <<>>
  /\ selectedEdgeIds' = <<>>
  /\ reported' = NoReport
  /\ UNCHANGED propertiesPanelOpen

togglePropertiesPanel ==
  /\ propertiesPanelOpen' = ~propertiesPanelOpen
  /\ UNCHANGED <<selectedNodeIds, selectedEdgeIds, reported>>

\* onSelectionChange calls selectNodes and then selectEdges, neither with
\* append
onSelectionChange(nodes, edges) ==
  LET first == NodesSelected(Selection, nodes, FALSE)
      second == EdgesSelected(first, edges, FALSE)
  IN  /\ selectedNodeIds' = second.selectedNodeIds
      /\ selectedEdgeIds' = second.selectedEdgeIds
      /\ reported' = [handler |-> "onSelectionChange",
                      nodes |-> nodes, edges |-> edges]
      /\ UNCHANGED propertiesPanelOpen

onNodeClick(node) ==
  /\ selectedNodeIds' = NodesSelected(Selection, <<node>>, FALSE).selectedNodeIds
  /\ selectedEdgeIds' = NodesSelected(Selection, <<node>>, FALSE).selectedEdgeIds
  /\ reported' = [handler |-> "onNodeClick", nodes |-> <<node>>,
                  edges |-> <<>>]
  /\ UNCHANGED propertiesPanelOpen

\* the id of the node NodePropertiesPanel looks up, if it renders
PanelNodeId ==
  IF propertiesPanelOpen /\ selectedNodeIds # <<>>
  THEN selectedNodeIds[1] ELSE NULL

InitSelection ==
  /\ currentSeed = 0
  /\ GenerationIdle
  /\ StatsIdle
  /\ ProjectIdle
  /\ WeightsIdle
  /\ EditorIdle
  /\ DungeonIdle

NextSelection ==
  \/ \E ids \in Selections(NodeIds), append \in BOOLEAN :
        selectNodes(ids, append)
        /\ UNCHANGED <<genVars, statsVars, projectVars, weightVars, dungeonVars>>
  \/ \E ids \in Selections(EdgeIds), append \in BOOLEAN :
        selectEdges(ids, append)
        /\ UNCHANGED <<genVars, statsVars, projectVars, weightVars, dungeonVars>>
  \/ clearSelection
        /\ UNCHANGED <<genVars, statsVars, projectVars, weightVars, dungeonVars>>
  \/ togglePropertiesPanel
        /\ UNCHANGED <<genVars, statsVars, projectVars, weightVars, dungeonVars>>
  \/ \E nodes \in Selections(NodeIds), edges \in Selections(EdgeIds) :
        onSelectionChange(nodes, edges)
        /\ UNCHANGED <<genVars, statsVars, projectVars, weightVars, dungeonVars>>
  \/ \E node \in NodeIds : onNodeClick(node)
        /\ UNCHANGED <<genVars, statsVars, projectVars, weightVars, dungeonVars>>

\* the editor store under the selection handlers
SpecSelection == InitSelection /\ [][NextSelection]_vars

(***************************************************************************)
(* The application: the stores side by side.                               *)
(***************************************************************************)
Init ==
  /\ currentSeed \in Seeds
  /\ GenerationIdle
  /\ dataset \in Datasets
  /\ statistics = NullObject
  /\ ProjectIdle
  /\ weights \in WeightVectors
  /\ edit = NoEdit
  /\ EditorIdle
  /\ DungeonIdle

Next ==
  NextGeneration \/ NextStats \/ NextProject \/ NextEditor \/ NextWeights
    \/ NextSelection \/ NextDungeon

Spec == Init /\ [][Next]_vars

(***************************************************************************)
(* Properties of generation and simulation, under SpecGen.                 *)
(***************************************************************************)
\* C1: determinism: every call of generate_once with one seed, whatever
\* generator and clock it was made with, returned the same layout
C1_Determinism ==
  \A seed \in RunSeeds : Cardinality(layouts[seed]) <= 1

\* generate_once has returned at least twice for one seed
C1_Witness ==
  \E seed \in RunSeeds : generated[seed] = 2 /\ layouts[seed] # {}

\* the seed a simulation starts from
StartOf(config) ==
  IF config.seedStart = Absent THEN 0 ELSE config.seedStart[1]

\* run j of the loop (counted from 1) used seed s+(j-1) and produced the
\* layout generate_once produced for that seed whenever it was called alone
RunsInOrder(config, results) ==
  \A j \in 1..Len(results) :
    /\ results[j].seed = StartOf(config) + (j - 1)
    /\ \A layout \in layouts[results[j].seed] : results[j].data = layout

\* C2: a simulation of N runs performs exactly N runs, run i with seed s+i,
\* each with the layout generate_once gives for that seed on its own
C2_RunsIndependent ==
  /\ \A k \in 1..Len(simulating) :
       /\ Len(simulating[k].results) < simulating[k].config.runCount
       /\ RunsInOrder(simulating[k].config, simulating[k].results)
  /\ executed # NullObject =>
       /\ Len(executed.results) = executed.config.runCount
       /\ RunsInOrder(executed.config, executed.results)

\* a simulation of two runs has returned and the seed of its second run was
\* also generated on its own
C2_Witness ==
  /\ executed # NullObject
  /\ Len(executed.results) >= 2
  /\ layouts[executed.results[2].seed] # {}

\* the k-th pending simulation was cancelled and now leaves the backend
CancelledLeaves(k) ==
  /\ simulating[k].cancelled
  /\ simulating' = RemoveAt(simulating, k)

\* C3: a simulation that was cancelled while in flight never stores its
\* results and never sets the progress to 100
C3_CancelledNeverStored ==
  [][\A k \in 1..Len(simulating) :
       CancelledLeaves(k) =>
         /\ simulationResults' = simulationResults
         /\ simulationProgress' = simulationProgress]_vars

\* the number of runs that succeeded
Succeeded(results) ==
  Cardinality({j \in 1..Len(results) : results[j].success})

\* C6: the stored successRate is succeeded runs / total runs and the stored
\* runs field is the number of runs that were executed
C6_SuccessRate ==
  simulationResults # NullObject =>
    /\ simulationResults.runs = Len(executed.results)
    /\ SameRatio(simulationResults.successRate,
                 Ratio(Succeeded(executed.results), Len(executed.results)))

\* the results of a simulation of two runs are stored
C6_Witness ==
  /\ simulationResults # NullObject
  /\ Len(executed.results) = 2
  /\ simulationResults.config.runCount = 2

\* the constraint ids in the constraintResults of the runs
ConstraintIdsOf(results) ==
  {results[j].constraintResults[c].constraintId :
     j \in 1..Len(results), c \in 1..3}

\* the runs in which the constraint passed
PassesOf(results, id) ==
  Cardinality({j \in 1..Len(results) :
                 \E c \in 1..3 :
                   /\ results[j].constraintResults[c].constraintId = id
                   /\ results[j].constraintResults[c].passed})

\* C7: every constraint id in the results of the runs has an aggregate entry
\* with passRate = passes / runs and violations = runs - passes
C7_ConstraintAggregates ==
  simulationResults # NullObject =>
    \A id \in ConstraintIdsOf(executed.results) :
      /\ id \in DOMAIN simulationResults.constraintResults
      /\ SameRatio(simulationResults.constraintResults[id].passRate,
                   Ratio(PassesOf(executed.results, id),
                         Len(executed.results)))
      /\ simulationResults.constraintResults[id].violations =
           Len(executed.results) - PassesOf(executed.results, id)

\* the GenerationResults the backend has returned that the state still holds
ReturnedResults ==
  ({lastResult} \ {NullObject})
    \cup UNION {{simulating[k].results[j] : j \in 1..Len(simulating[k].results)} :
                  k \in 1..Len(simulating)}

\* the layouts the backend has returned that the state still holds
ReturnedLayouts ==
  {result.data : result \in ReturnedResults}
    \cup (IF executed = NullObject THEN {}
          ELSE {executed.results[j].data : j \in 1..Len(executed.results)})

\* a RoomConnection joins rooms a and b, in either direction
Joined(layout, a, b) ==
  \E c \in 1..Len(layout.connections) :
    \/ layout.connections[c].fromRoomId = a /\ layout.connections[c].toRoomId = b
    \/ layout.connections[c].fromRoomId = b /\ layout.connections[c].toRoomId = a

RECURSIVE ReachedIn(_, _, _)
\* the rooms at most n connections away from the rooms of `reached`
ReachedIn(layout, reached, n) ==
  IF n = 0 THEN reached
  ELSE ReachedIn(layout,
                 reached \cup {layout.rooms[k].id : k \in
                                 {k \in 1..Len(layout.rooms) :
                                    \E a \in reached :
                                      Joined(layout, a, layout.rooms[k].id)}},
                 n - 1)

\* the point lies in the room
Inside(room, point) ==
  /\ room.bounds.x <= point.x
  /\ point.x <= room.bounds.x + room.bounds.width
  /\ room.bounds.y <= point.y
  /\ point.y <= room.bounds.y + room.bounds.height

\* every room is reachable from every room that contains playerStart
AllReachable(layout) ==
  /\ \E k \in 1..Len(layout.rooms) : Inside(layout.rooms[k], layout.playerStart)
  /\ \A k \in 1..Len(layout.rooms) :
       Inside(layout.rooms[k], layout.playerStart) =>
         ReachedIn(layout, {layout.rooms[k].id}, Len(layout.rooms)) =
           {layout.rooms[j].id : j \in 1..Len(layout.rooms)}

\* the result says the constraint passed
Passed(result, id) ==
  \E c \in 1..Len(result.constraintResults) :
    /\ result.constraintResults[c].constraintId = id
    /\ result.constraintResults[c].passed

\* C11: a result whose 'connected' constraint passed has a layout in which
\* every room is reachable from the room of playerStart by the connections
C11_ConnectedMeansReachable ==
  /\ \A result \in ReturnedResults :
       Passed(result, "connected") => AllReachable(result.data)
  /\ executed # NullObject =>
       \A j \in 1..Len(executed.results) :
         Passed(executed.results[j], "connected") =>
           AllReachable(executed.results[j].data)

\* a generate() has stored a result whose 'connected' constraint passed, for
\* a layout with branching connections besides the sequential ones
C11_Witness ==
  /\ lastResult # NullObject
  /\ Passed(lastResult, "connected")
  /\ Len(lastResult.data.connections) >= Len(lastResult.data.rooms)

\* the constraints declared on the generator of a request
DeclaredConstraints(request) ==
  IF request.generator = NullObject THEN <<>> ELSE request.generator.constraints

\* the result has exactly one ConstraintResult for each of the constraints,
\* and no other
OnePerConstraint(result, constraints) ==
  /\ Len(result.constraintResults) = Len(constraints)
  /\ \A c \in 1..Len(constraints) :
       Cardinality({r \in 1..Len(result.constraintResults) :
                      result.constraintResults[r].constraintId =
                        constraints[c].id}) = 1

\* the k-th pending generate() settles and stores a result
GenerateStores(k) ==
  /\ generating' = RemoveAt(generating, k)
  /\ lastResult' # NullObject
  /\ lastResult' # lastResult

\* C12: the result generate_once returns has exactly one ConstraintResult for
\* each constraint declared on the generator of the request, and none when
\* no constraint is declared
C12_OneResultPerConstraint ==
  [][\A k \in 1..Len(generating) :
       GenerateStores(k) =>
         OnePerConstraint(lastResult',
                          DeclaredConstraints(generating[k].request))]_vars

\* C14: while a runSimulation() is in flight simulationProgress never
\* decreases, and it is 100 only when no simulation is in flight any more
C14_ProgressMonotonic ==
  /\ [](simulationProgress = 100 => simulating = <<>>)
  /\ [][simulating # <<>> => simulationProgress' >= simulationProgress]_vars

\* after is before with one more node that no edge leaves, so the node is
\* upstream of nothing
AddsLooseNode(before, after) ==
  /\ before # NullObject
  /\ after # NullObject
  /\ after.edges = before.edges
  /\ Len(after.nodes) = Len(before.nodes) + 1
  /\ SubSeq(after.nodes, 1, Len(before.nodes)) = before.nodes
  /\ \A e \in 1..Len(after.edges) :
       after.edges[e].source.nodeId # after.nodes[Len(after.nodes)].id

\* two stored generations of one seed, the second over the graph of the
\* first with a loose node added
EditedBetween(a, b) == a.seed = b.seed /\ AddsLooseNode(a.graph, b.graph)

\* the entities of a layout, room by room
PlacedEntities(layout) ==
  [i \in 1..Len(layout.rooms) |-> layout.rooms[i].entities]

\* C16: for one seed, adding to the graph a node that is upstream of nothing
\* changes no room, entity or connection that is generated
C16_GraphEditKeepsSamples ==
  \A a, b \in sampled :
    EditedBetween(a, b) =>
      /\ a.data.rooms = b.data.rooms
      /\ PlacedEntities(a.data) = PlacedEntities(b.data)
      /\ a.data.connections = b.data.connections

C16_Witness ==
  \E a, b \in sampled : EditedBetween(a, b) /\ a.data.rooms # <<>>

\* the k-th pending generate() settles with a failure
GenerateFails(k) ==
  /\ generating' = RemoveAt(generating, k)
  /\ error' # NULL
  /\ lastResult' = lastResult

\* C15: a generate() whose generate_once fails leaves isGenerating false, an
\* error, lastResult as it was and currentSeed at the seed of the failed
\* request
C15_FailureKeepsSeed ==
  [][\A k \in 1..Len(generating) :
       GenerateFails(k) =>
         /\ isGenerating' = FALSE
         /\ error' # NULL
         /\ lastResult' = lastResult
         /\ currentSeed' = generating[k].request.seed]_vars

(***************************************************************************)
(* Properties of undo and redo, under SpecProject.                         *)
(***************************************************************************)
\* C4: after newProject() and one or more recorded mutations, undo() sets
\* the project to what it was just before the last of the mutations
C4_UndoRestores ==
  mutation.stage = "undone" => project = mutation.before

\* C5: where canUndo holds, undo() and then redo() leave the project as it
\* was before the undo()
C5_UndoRedoRoundTrip ==
  roundTrip.stage = "redone" => project = roundTrip.was

(***************************************************************************)
(* Properties of the history, under SpecHistory.                           *)
(***************************************************************************)
\* a step that records a snapshot while the history is full and the store
\* stands at its last entry
PushesWhenFull ==
  /\ Len(history) = HistoryLimit
  /\ historyIndex = HistoryLimit - 1
  /\ history' # history
  /\ history' # <<>>
  /\ Len(history') # 1

\* C22: the history never holds more than 50 snapshots; while a project is
\* open historyIndex is the index of one of them, and the history is empty
\* with historyIndex = -1 exactly when no project is open; a snapshot
\* recorded when the history is full pushes out the oldest one
C22_HistoryBounded ==
  /\ [](/\ Len(history) <= HistoryLimit
        /\ project # NullObject =>
             0 <= historyIndex /\ historyIndex <= Len(history) - 1
        /\ project = NullObject <=> (historyIndex = -1 /\ history = <<>>))
  /\ [][PushesWhenFull =>
          /\ Len(history') = HistoryLimit
          /\ SubSeq(history', 1, HistoryLimit - 1) = Tail(history)]_vars

\* the history is full and the snapshot newProject() recorded has been
\* pushed out of it
C22_Witness ==
  /\ project # NullObject
  /\ Len(history) = HistoryLimit
  /\ history[1].description # <<"Initial">>

(***************************************************************************)
(* Properties of the graph of the active generator, under SpecEditor.      *)
(***************************************************************************)
\* the nodes the edges of a graph lead to from the nodes ids
Successors(graph, ids) ==
  {graph.edges[e].target.nodeId :
     e \in {d \in 1..Len(graph.edges) : graph.edges[d].source.nodeId \in ids}}

\* the nodes reached from ids along at most n edges
RECURSIVE Downstream(_, _, _)
Downstream(graph, ids, n) ==
  IF n = 0 THEN ids
  ELSE Downstream(graph, ids \cup Successors(graph, ids), n - 1)

\* some edge of the graph lies on a directed cycle
HasCycle(graph) ==
  \E e \in 1..Len(graph.edges) :
    graph.edges[e].source.nodeId
      \in Downstream(graph, {graph.edges[e].target.nodeId}, Len(graph.edges))

\* C25: activeGeneratorId is null or the id of a generator of the project
C25_ActiveGeneratorListed ==
  activeGeneratorId = NULL \/ GeneratorIndex(activeGeneratorId) # 0

\* C18: the graph of the active generator has no directed cycle, a self-loop
\* included, in any state the editor reaches
C18_GraphAcyclic == ~HasCycle(ActiveGraph)

\* the node of a graph an edge leads to, or NullObject if the graph has none
TargetNode(graph, edge) ==
  IF IndexOfId(graph.nodes, edge.target.nodeId) = 0 THEN NullObject
  ELSE graph.nodes[IndexOfId(graph.nodes, edge.target.nodeId)]

\* the edge leads to a port that takes one edge: "in" of a room, room chain,
\* branch or output node, "room" of a content node
IntoSingleInput(graph, edge) ==
  /\ TargetNode(graph, edge) # NullObject
  /\ \/ /\ TargetNode(graph, edge).type
             \in {"room", "room_chain", "branch", "output"}
        /\ edge.target.portId = "in"
     \/ /\ TargetNode(graph, edge).type
             \in {"spawn_point", "loot_drop", "encounter", "prop"}
        /\ edge.target.portId = "room"

\* C19: no two edges of the active generator's graph lead to the same
\* single-input port
C19_SingleInputOnce ==
  \A d, e \in 1..Len(ActiveGraph.edges) :
    /\ d # e
    /\ IntoSingleInput(ActiveGraph, ActiveGraph.edges[d])
    /\ ActiveGraph.edges[d].target = ActiveGraph.edges[e].target
    => FALSE

\* both ends of every edge of the graph are nodes of the graph
EdgesAttached(graph) ==
  \A e \in 1..Len(graph.edges) :
    /\ IndexOfId(graph.nodes, graph.edges[e].source.nodeId) # 0
    /\ IndexOfId(graph.nodes, graph.edges[e].target.nodeId) # 0

\* C20: whatever the editor does from the empty graph, every edge of the
\* active generator's graph starts and ends at a node of that graph
C20_EdgesReferenceNodes == EdgesAttached(ActiveGraph)

\* the graph the latest history entry holds for the active generator
GraphBefore ==
  LET generators == history[Len(history)].project.generators
  IN  IF IndexOfId(generators, activeGeneratorId) = 0
      THEN [nodes |-> <<>>, edges |-> <<>>, groups |-> <<>>]
      ELSE generators[IndexOfId(generators, activeGeneratorId)].graph

\* deleteNode has just removed a node together with an edge that touched it,
\* and other nodes remain
C20_Witness ==
  /\ history[Len(history)].description = <<"Delete node">>
  /\ historyIndex = Len(history) - 1
  /\ mutation.stage = "mutated"
  /\ Len(GraphBefore.edges) > Len(ActiveGraph.edges)
  /\ Len(GraphBefore.nodes) = Len(ActiveGraph.nodes) + 1
  /\ ActiveGraph.nodes # <<>>

\* C26: isDirty is true only while a project is open
C26_DirtyOnlyWhenOpen == isDirty => project # NullObject

\* the flags say where historyIndex stands in the history
FlagsAgree ==
  /\ canUndo <=> historyIndex > 0
  /\ canRedo <=> historyIndex < Len(history) - 1

\* an undo() called while canUndo is true
UndoEnabled == canUndo /\ roundTrip'.stage = "undone"

\* a redo() called right after an undo(), while canRedo is true
RedoEnabled ==
  canRedo /\ roundTrip.stage = "undone" /\ roundTrip'.stage = "redone"

\* C24: canUndo is true exactly when historyIndex > 0 and canRedo exactly
\* when historyIndex < history.length - 1, and an undo() or redo() whose flag
\* is true changes the project
C24_FlagsMatchHistory ==
  /\ []FlagsAgree
  /\ [][UndoEnabled => project' # project]_vars
  /\ [][RedoEnabled => project' # project]_vars

\* C23: a recorded mutation that follows one or more undo() calls keeps the
\* snapshots up to historyIndex, drops every later one, appends its own and
\* sets canRedo to false; a redo() called next leaves project and
\* historyIndex as they were
C23_MutationCutsRedo ==
  /\ redoCut.stage = "cut" =>
       /\ Len(history) = redoCut.historyIndex + 2
       /\ SubSeq(history, 1, redoCut.historyIndex + 1)
            = SubSeq(redoCut.history, 1, redoCut.historyIndex + 1)
       /\ historyIndex = Len(history) - 1
       /\ canRedo = FALSE
  /\ redoCut.stage = "redone" =>
       /\ project = redoCut.project
       /\ historyIndex = redoCut.historyIndex
       /\ canRedo = FALSE

\* a redo() has followed a mutation that followed an undo()
C23_Witness ==
  /\ redoCut.stage = "redone"
  /\ project # NullObject
  /\ Len(history) >= 2

(***************************************************************************)
(* Properties of the weights editor, under SpecWeights.                    *)
(***************************************************************************)
\* the index before the operation of the path that now has index i (both
\* from 1), for a path that the operation neither added, removed nor edited;
\* 0 for the path it added or edited
BeforeIndex(i) ==
  CASE edit.op = "addPath" -> IF i = Len(weights) THEN 0 ELSE i
    [] edit.op = "removePath" -> IF i <= edit.index THEN i ELSE i + 1
    [] edit.op = "updateWeight" -> IF i = edit.index + 1 THEN 0 ELSE i

\* a / b = c / d
SameProportion(a, b, c, d) == Over(a, b) = Over(c, d)

\* C13: after addPath, removePath and updateWeight the weights sum to 1, and
\* the paths the operation left alone keep the ratios of their weights
C13_WeightsNormalized ==
  edit.op # "none" =>
    /\ Total(weights) = Fraction(1, 1)
    /\ \A i, j \in 1..Len(weights) :
         BeforeIndex(i) # 0 /\ BeforeIndex(j) # 0 =>
           SameProportion(weights[i], weights[j],
                          edit.before[BeforeIndex(i)],
                          edit.before[BeforeIndex(j)])

(***************************************************************************)
(* Properties of SeededRandom and generateDungeon, under SpecDungeon.      *)
(***************************************************************************)
\* generateDungeon has returned a layout
LayoutReturned == dungeonLayout # NullObject /\ dungeonLayout # Thrown

RoomIdsOf(layout) == {layout.rooms[i].id : i \in 1..Len(layout.rooms)}

\* C27: in the layout generateDungeon returns no two rooms share an id, every
\* connection joins two different rooms of the layout, and every spawn point
\* names a room of the layout
C27_LayoutReferencesRooms ==
  LayoutReturned =>
    /\ \A i, j \in 1..Len(dungeonLayout.rooms) :
         i # j => dungeonLayout.rooms[i].id # dungeonLayout.rooms[j].id
    /\ \A c \in 1..Len(dungeonLayout.connections) :
         /\ dungeonLayout.connections[c].fromRoomId \in RoomIdsOf(dungeonLayout)
         /\ dungeonLayout.connections[c].toRoomId \in RoomIdsOf(dungeonLayout)
         /\ dungeonLayout.connections[c].fromRoomId
              # dungeonLayout.connections[c].toRoomId
    /\ \A p \in 1..Len(dungeonLayout.spawnPoints) :
         dungeonLayout.spawnPoints[p].roomId \in RoomIdsOf(dungeonLayout)

\* a layout with branching connections and spawn points has been returned
C27_Witness ==
  /\ LayoutReturned
  /\ Len(dungeonLayout.connections) > Len(dungeonLayout.rooms) - 1
  /\ dungeonLayout.spawnPoints # <<>>

\* a position strictly inside the bounds of a room
StrictlyInside(position, bounds) ==
  /\ bounds.x < position.x /\ position.x < bounds.x + bounds.width
  /\ bounds.y < position.y /\ position.y < bounds.y + bounds.height

\* the rooms of a layout with a given id
RoomsNamed(layout, id) ==
  {i \in 1..Len(layout.rooms) : layout.rooms[i].id = id}

\* C28: in the layout generateDungeon returns every entity and every spawn
\* point lies strictly inside the bounds of its room, playerStart lies inside
\* the first room, and there is exactly one exit, inside the last room
C28_PositionsInsideRooms ==
  LayoutReturned =>
    /\ \A i \in 1..Len(dungeonLayout.rooms) :
         \A e \in 1..Len(dungeonLayout.rooms[i].entities) :
           StrictlyInside(dungeonLayout.rooms[i].entities[e].position,
                          dungeonLayout.rooms[i].bounds)
    /\ \A p \in 1..Len(dungeonLayout.spawnPoints) :
         \A i \in RoomsNamed(dungeonLayout, dungeonLayout.spawnPoints[p].roomId) :
           StrictlyInside(dungeonLayout.spawnPoints[p].position,
                          dungeonLayout.rooms[i].bounds)
    /\ StrictlyInside(dungeonLayout.playerStart, dungeonLayout.rooms[1].bounds)
    /\ Len(dungeonLayout.exits) = 1
    /\ StrictlyInside(dungeonLayout.exits[1],
                      dungeonLayout.rooms[Len(dungeonLayout.rooms)].bounds)

\* a layout with entities in a room and spawn points has been returned
C28_Witness ==
  /\ LayoutReturned
  /\ \E i \in 1..Len(dungeonLayout.rooms) :
       dungeonLayout.rooms[i].entities # <<>>
  /\ Len(dungeonLayout.spawnPoints) >= 3

\* C29: next() returns a number in [0, 1), nextInt(min, max) an integer in
\* min..max and pick(array) an element of the array, whatever state the
\* instance has reached; generateDungeon never throws and builds 5 to 12
\* rooms, so the 'min-rooms' check passes
C29_DrawsInRange ==
  /\ lastDraw.call = "next" =>
       0 <= lastDraw.numerator /\ lastDraw.numerator < lastDraw.denominator
  /\ lastDraw.call = "nextInt" =>
       lastDraw.min <= lastDraw.value /\ lastDraw.value <= lastDraw.max
  /\ lastDraw.call = "pick" =>
       \E k \in 1..Len(lastDraw.array) : lastDraw.array[k] = lastDraw.value
  /\ dungeonLayout # Thrown
  /\ LayoutReturned =>
       /\ Len(dungeonLayout.rooms) \in 5..12
       /\ GenerationResultOf([seed |-> givenSeed], dungeonLayout, 0, BaseDelay)
            .constraintResults[1].passed

\* the instance has made several calls, the last one a pick, and
\* generateDungeon has returned
C29_Witness ==
  /\ nextCalls >= 2
  /\ lastDraw.call = "pick"
  /\ LayoutReturned

(***************************************************************************)
(* Properties of selection, under SpecSelection.                           *)
(***************************************************************************)
\* C21: after the canvas reports a selection of one node and no edges, the
\* editor store holds exactly that node as selected, and it is the node the
\* properties panel looks up
C21_SelectionReachesPanel ==
  (reported.handler = "onSelectionChange"
     /\ Len(reported.nodes) = 1 /\ reported.edges = <<>>) =>
    /\ selectedNodeIds = reported.nodes
    /\ propertiesPanelOpen => PanelNodeId = reported.nodes[1]

(***************************************************************************)
(* Properties of calcStats, under SpecStats.                               *)
(***************************************************************************)
\* v is the value at index j (from 0) of the dataset in ascending order
IsRanked(values, j, v) ==
  /\ Cardinality({k \in DOMAIN values : values[k] < v}) <= j
  /\ j < Cardinality({k \in DOMAIN values : values[k] <= v})

PercentileOf(stats, percent) ==
  CASE percent = 5 -> stats.percentiles.p5
    [] percent = 25 -> stats.percentiles.p25
    [] percent = 75 -> stats.percentiles.p75
    [] percent = 95 -> stats.percentiles.p95

\* C8: each percentile p of 5, 25, 75, 95 hundredths is the value at index
\* floor(p * (n-1)) of the dataset in ascending order
C8_PercentileIndex ==
  statistics # NullObject =>
    \A percent \in {5, 25, 75, 95} :
      IsRanked(dataset, (percent * (Len(dataset) - 1)) \div 100,
               PercentileOf(statistics, percent))

\* m has at least half of the values at or below it and at least half at or
\* above it
IsMedian(values, m) ==
  /\ 2 * Cardinality({k \in DOMAIN values : values[k] <= m}) >= Len(values)
  /\ 2 * Cardinality({k \in DOMAIN values : values[k] >= m}) >= Len(values)

\* C9: min is the smallest value, max the largest, mean is sum / n and the
\* median is a true median; for [1,2,3,4,5] mean 3, median 3, min 1, max 5
C9_BasicStatistics ==
  statistics # NullObject =>
    /\ \E k \in DOMAIN dataset : statistics.min = dataset[k]
    /\ \A k \in DOMAIN dataset : statistics.min <= dataset[k]
    /\ \E k \in DOMAIN dataset : statistics.max = dataset[k]
    /\ \A k \in DOMAIN dataset : statistics.max >= dataset[k]
    /\ SameRatio(statistics.mean, Ratio(Sum(dataset), Len(dataset)))
    /\ \E k \in DOMAIN dataset : statistics.median = dataset[k]
    /\ IsMedian(dataset, statistics.median)
    /\ dataset = <<1, 2, 3, 4, 5>> =>
         /\ SameRatio(statistics.mean, Ratio(3, 1))
         /\ statistics.median = 3
         /\ statistics.min = 1
         /\ statistics.max = 5

\* the statistics of [1,2,3,4,5] have been computed
C9_Witness ==
  /\ statistics # NullObject
  /\ dataset = <<1, 2, 3, 4, 5>>

(***************************************************************************)
(* isGenerating and the calls of generate in flight, under SpecGen.        *)
(***************************************************************************)
\* C30: isGenerating is true exactly when a call of generate has been issued
\* and has not settled yet, also while two calls overlap and after one of
\* them has settled
C30_GeneratingWhileInFlight == isGenerating <=> generating # <<>>

=============================================================================
